---- MODULE Spec2Model ----
(***************************************************************************)
(* A model of the mysql-mcp server: the SQL safety validator               *)
(* (utils/validation), the DatabaseConnection gateway (db/connection),     *)
(* the SchemaAnalyzer (db/schema), the MCPHandlers tool dispatcher         *)
(* (mcp/handlers) and the standalone server's tools.                       *)
(*                                                                         *)
(* Texts are sequences of one-character strings, so that trimming, case    *)
(* conversion, substring search and the regular expressions of the         *)
(* validator are computed character by character.                          *)
(***************************************************************************)
EXTENDS Integers, Sequences, FiniteSets, TLC

VARIABLES
    vIn,        \* the input of a call of a pure validator function
    vOut,       \* the function applied to vIn and what it returned
    pools,      \* every ConnectionPool the gateway has constructed, in order
    pool,       \* DatabaseConnection.pool: 0 for null, else an index of pools
    calls,      \* the tool calls of the dispatcher, by call id
    tasks,      \* the gateway invocations of each tool call, by call and slot
    sPool,      \* the standalone server's module variable `pool`
    closers,    \* the calls of DatabaseConnection.disconnect, in order
    instance,   \* DatabaseConnection.instance and the getInstance calls made
    proc,       \* the standalone server's process: how far its start has come
    sConn,      \* the state of the pool that the standalone server's `pool` holds
    sweep,      \* SchemaAnalyzer.getDatabaseMetadata: its calls and their results
    db          \* the database's catalogue, as the metadata queries find it

\* the standalone server's process and its pool's state
aloneVars == <<proc, sConn>>

\* the whole-database sweep and the catalogue it reads
sweepVars == <<sweep, db>>

vars == <<vIn, vOut, pools, pool, calls, tasks, sPool, closers, instance,
          aloneVars, sweepVars>>

dispVars == <<pools, pool, calls, tasks, sPool, closers, instance,
              aloneVars, sweepVars>>

(***************************************************************************)
(* Bounds of the model.                                                    *)
(***************************************************************************)
\* the longest run of leading white space put before a validator input
MaxLead == 1
\* the number of tool calls a behaviour holds
MaxCalls == 2
\* the most rows the database returns for an ad-hoc query
MaxRows == 1
\* the number of gateway invocations the calls of a behaviour make
MaxTasks == 5

\* the number of calls of DatabaseConnection.disconnect
MaxDisconnects == 2

(***************************************************************************)
(* Characters and strings.                                                 *)
(***************************************************************************)
LowerLetters ==
    <<"a", "b", "c", "d", "e", "f", "g", "h", "i", "j", "k", "l", "m",
      "n", "o", "p", "q", "r", "s", "t", "u", "v", "w", "x", "y", "z">>

UpperLetters ==
    <<"A", "B", "C", "D", "E", "F", "G", "H", "I", "J", "K", "L", "M",
      "N", "O", "P", "Q", "R", "S", "T", "U", "V", "W", "X", "Y", "Z">>

Digits == <<"0", "1", "2", "3", "4", "5", "6", "7", "8", "9">>

Range(s) == {s[i] : i \in DOMAIN s}

LowerSet == Range(LowerLetters)

UpperSet == Range(UpperLetters)

DigitSet == Range(Digits)

\* the white space String.prototype.trim removes and \s matches
WhiteSpace == {" ", "\t", "\n"}

UpperMap ==
    [c \in LowerSet |->
        UpperLetters[CHOOSE i \in DOMAIN LowerLetters : LowerLetters[i] = c]]

LowerMap ==
    [c \in UpperSet |->
        LowerLetters[CHOOSE i \in DOMAIN UpperLetters : UpperLetters[i] = c]]

ToUpperChar(c) == IF c \in LowerSet THEN UpperMap[c] ELSE c

ToLowerChar(c) == IF c \in UpperSet THEN LowerMap[c] ELSE c

\* String.prototype.toUpperCase
ToUpperCase(s) == SubSeq([i \in 1..Len(s) |-> ToUpperChar(s[i])], 1, Len(s))

\* String.prototype.toLowerCase
ToLowerCase(s) == SubSeq([i \in 1..Len(s) |-> ToLowerChar(s[i])], 1, Len(s))

Min(a, b) == IF a <= b THEN a ELSE b

\* the least element of a non-empty set of integers
Least(S) == CHOOSE x \in S : \A y \in S : x <= y

\* String.prototype.trim: the text without its leading and trailing white space
Trim(s) ==
    LET n == Len(s)
        black == {i \in 1..n : s[i] \notin WhiteSpace}
    IN  IF black = {} THEN <<>>
        ELSE LET first == Least(black)
                 last == n + 1 - Least({n + 1 - i : i \in black})
             IN  SubSeq(s, first, last)

\* s holds k at position i
StartsAt(s, k, i) ==
    /\ i >= 1
    /\ i + Len(k) - 1 <= Len(s)
    /\ \A j \in DOMAIN k : s[i + j - 1] = k[j]

\* String.prototype.startsWith
StartsWith(s, k) == StartsAt(s, k, 1)

\* String.prototype.includes
Includes(s, k) == \E i \in 1..(Len(s) - Len(k) + 1) : StartsAt(s, k, i)

\* s[from..to] is white space only (an empty range is)
AllSpace(s, from, to) == \A k \in from..to : s[k] \in WhiteSpace

\* n copies of the character c
Repeat(c, n) == SubSeq([i \in 1..n |-> c], 1, n)

(***************************************************************************)
(* SQLValidator                                                            *)
(***************************************************************************)
DANGEROUS_KEYWORDS ==
    << <<"D", "R", "O", "P">>,
       <<"D", "E", "L", "E", "T", "E">>,
       <<"T", "R", "U", "N", "C", "A", "T", "E">>,
       <<"A", "L", "T", "E", "R">>,
       <<"C", "R", "E", "A", "T", "E">>,
       <<"I", "N", "S", "E", "R", "T">>,
       <<"U", "P", "D", "A", "T", "E">>,
       <<"E", "X", "E", "C">>,
       <<"E", "X", "E", "C", "U", "T", "E">>,
       <<"S", "P", "_">>,
       <<"X", "P", "_">>,
       <<"S", "H", "U", "T", "D", "O", "W", "N">>,
       <<"K", "I", "L", "L">> >>

kwSELECT == <<"S", "E", "L", "E", "C", "T">>

kwWITH == <<"W", "I", "T", "H">>

kwUNION == <<"U", "N", "I", "O", "N">>

kwEXEC == <<"E", "X", "E", "C">>

kwEXECUTE == <<"E", "X", "E", "C", "U", "T", "E">>

\* the verbs of the first suspicious pattern
InjectionVerbs == {DANGEROUS_KEYWORDS[i] : i \in 1..7}

\* isReadOnlyQuery without toUpperCase: the keywords are looked for in the
\* text as written
isReadOnlyQueryCaseSensitive(query) ==
    LET normalizedQuery == Trim(query)
    IN  /\ \A i \in DOMAIN DANGEROUS_KEYWORDS :
              ~Includes(normalizedQuery, DANGEROUS_KEYWORDS[i])
        /\ \/ StartsWith(normalizedQuery, kwSELECT)
           \/ StartsWith(normalizedQuery, kwWITH)

\* isReadOnlyQuery without its startsWith test
isReadOnlyQueryNoStart(query) ==
    LET normalizedQuery == ToUpperCase(Trim(query))
    IN  \A i \in DOMAIN DANGEROUS_KEYWORDS :
            ~Includes(normalizedQuery, DANGEROUS_KEYWORDS[i])

isReadOnlyQuery(query) ==
    LET normalizedQuery == ToUpperCase(Trim(query))
    IN  /\ \A i \in DOMAIN DANGEROUS_KEYWORDS :
              ~Includes(normalizedQuery, DANGEROUS_KEYWORDS[i])
        /\ \/ StartsWith(normalizedQuery, kwSELECT)
           \/ StartsWith(normalizedQuery, kwWITH)

IsLetter(c) == c \in LowerSet \/ c \in UpperSet

IsWordChar(c) == IsLetter(c) \/ c \in DigitSet \/ c = "_"

\* [a-zA-Z][a-zA-Z0-9_]*
IsIdent(s) ==
    /\ Len(s) >= 1
    /\ IsLetter(s[1])
    /\ \A i \in 2..Len(s) : IsWordChar(s[i])

isValidProcedureName(procedureName) ==
    \/ IsIdent(procedureName)
    \/ \E i \in 1..Len(procedureName) :
          /\ procedureName[i] = "."
          /\ IsIdent(SubSeq(procedureName, 1, i - 1))
          /\ IsIdent(SubSeq(procedureName, i + 1, Len(procedureName)))

\* the longest identifier sanitizeIdentifier returns
MaxIdentifierLength == 128

IsIdentifierChar(c) == IsWordChar(c) \/ c = "."

\* sanitizeIdentifier without .substring(0, 128)
sanitizeIdentifierNoTruncate(identifier) ==
    SelectSeq(identifier, IsIdentifierChar)

sanitizeIdentifier(identifier) ==
    LET kept == SelectSeq(identifier, IsIdentifierChar)
    IN  SubSeq(kept, 1, Min(MaxIdentifierLength, Len(kept)))

\* /;\s*(DROP|DELETE|TRUNCATE|ALTER|CREATE|INSERT|UPDATE)/i
MatchSemicolonVerb(s, u) ==
    \E i \in 1..Len(s) :
        /\ s[i] = ";"
        /\ \E j \in (i + 1)..Len(s) :
              /\ AllSpace(s, i + 1, j - 1)
              /\ \E v \in InjectionVerbs : StartsAt(u, v, j)

\* /UNION\s+SELECT/i
MatchUnionSelect(s, u) ==
    \E i \in 1..Len(s) :
        /\ StartsAt(u, kwUNION, i)
        /\ \E j \in (i + 6)..Len(s) :
              /\ AllSpace(s, i + 5, j - 1)
              /\ StartsAt(u, kwSELECT, j)

\* /EXEC\s*\(/i and /EXECUTE\s*\(/i
MatchCall(s, u, word) ==
    \E i \in 1..Len(s) :
        /\ StartsAt(u, word, i)
        /\ \E j \in (i + Len(word))..Len(s) :
              /\ AllSpace(s, i + Len(word), j - 1)
              /\ s[j] = "("

hasSQLInjectionPatterns(query) ==
    LET u == ToUpperCase(query)
    IN  \/ MatchSemicolonVerb(query, u)
        \/ MatchUnionSelect(query, u)
        \/ Includes(query, <<"-", "-">>)
        \/ Includes(query, <<"/", "*">>)
        \/ Includes(query, <<"*", "/">>)
        \/ Includes(u, <<"X", "P", "_">>)
        \/ Includes(u, <<"S", "P", "_">>)
        \/ MatchCall(query, u, kwEXEC)
        \/ MatchCall(query, u, kwEXECUTE)

\* the default maxLength of isValidQueryLength
MaxQueryLength == 10000

isValidQueryLength(query) == Len(query) <= MaxQueryLength

ErrLength == "Query exceeds maximum allowed length"

ErrInjection == "Query contains potentially dangerous patterns"

ErrReadOnly == "Only read-only queries are allowed"

\* validateQuery returning at the first failed check
validateQueryFirstError(query, allowWriteOperations) ==
    LET errors ==
            IF ~isValidQueryLength(query) THEN <<ErrLength>>
            ELSE IF hasSQLInjectionPatterns(query) THEN <<ErrInjection>>
            ELSE IF ~allowWriteOperations /\ ~isReadOnlyQuery(query)
                 THEN <<ErrReadOnly>>
            ELSE <<>>
    IN  [isValid |-> Len(errors) = 0, errors |-> errors]

\* allowWriteOperations is the truthiness of the argument
validateQuery(query, allowWriteOperations) ==
    LET e1 == IF ~isValidQueryLength(query) THEN <<ErrLength>> ELSE <<>>
        e2 == IF hasSQLInjectionPatterns(query)
              THEN Append(e1, ErrInjection) ELSE e1
        errors == IF ~allowWriteOperations /\ ~isReadOnlyQuery(query)
                  THEN Append(e2, ErrReadOnly) ELSE e2
    IN  [isValid |-> Len(errors) = 0, errors |-> errors]

(***************************************************************************)
(* JavaScript values a caller can pass as a parameter.  A value carries    *)
(* what the validator reads of it: its typeof, what Number(value) is, and  *)
(* whether Date.parse(value) is a number.                                  *)
(***************************************************************************)
JsNull == [typ |-> "null", num |-> "int", date |-> FALSE, lit |-> "null"]

JsUndefined ==
    [typ |-> "undefined", num |-> "nan", date |-> FALSE, lit |-> "undefined"]

JsOne == [typ |-> "number", num |-> "int", date |-> TRUE, lit |-> "1"]

JsPi == [typ |-> "number", num |-> "frac", date |-> TRUE, lit |-> "3.14"]

JsStrOne == [typ |-> "string", num |-> "int", date |-> TRUE, lit |-> "'1'"]

JsStrAbc == [typ |-> "string", num |-> "nan", date |-> FALSE, lit |-> "'abc'"]

JsTrue == [typ |-> "boolean", num |-> "int", date |-> FALSE, lit |-> "true"]

IntegerTypes == {"int", "bigint", "smallint", "tinyint"}

DecimalTypes == {"decimal", "numeric", "float", "real", "money", "smallmoney"}

StringTypes == {"varchar", "nvarchar", "char", "nchar", "text", "ntext"}

DateTypes == {"datetime", "datetime2", "smalldatetime", "date", "time"}

\* dataType is the declared type, lower-cased
validateParameter(value, dataType) ==
    IF value.typ \in {"null", "undefined"} THEN TRUE
    ELSE IF dataType \in IntegerTypes THEN value.num = "int"
    ELSE IF dataType \in DecimalTypes THEN value.num # "nan"
    ELSE IF dataType \in StringTypes THEN value.typ = "string"
    ELSE IF dataType \in DateTypes THEN value.date
    ELSE IF dataType = "bit"
         THEN value.typ = "boolean" \/ (value.typ = "number" /\ value.lit \in {"0", "1"})
    ELSE TRUE

(***************************************************************************)
(* The validator functions applied to bounded inputs.  An input is a head  *)
(* (what the text starts with), a separator, a body and a tail, behind a   *)
(* run of leading white space, and possibly filled up with x's to the      *)
(* length limit or one character past it.                                  *)
(***************************************************************************)
Leads == {Repeat(w, k) : w \in {" ", "\n"}, k \in 0..MaxLead}

Heads ==
    { <<>>,
      kwSELECT,
      ToLowerCase(kwSELECT),
      kwWITH,
      <<"S", "e", "L", "e", "C", "t", "E", "d">>,
      <<"W", "I", "T", "H", "O", "U", "T">>,
      <<"x">> }

Seps == { <<>>, <<" ">>, <<";", "\n">> }

\* a keyword in alternating letter case
MixedCase(k) ==
    [i \in 1..Len(k) |-> IF i % 2 = 0 THEN ToLowerChar(k[i]) ELSE k[i]]

KeywordBodies ==
    UNION { {DANGEROUS_KEYWORDS[i],
             ToLowerCase(DANGEROUS_KEYWORDS[i]),
             MixedCase(DANGEROUS_KEYWORDS[i])} : i \in DOMAIN DANGEROUS_KEYWORDS }

OtherBodies ==
    { <<>>,
      <<"1">>,
      <<"*", " ", "F", "R", "O", "M", " ", "t">>,
      <<"U", "N", "I", "O", "N", " ", "S", "E", "L", "E", "C", "T", " ", "1">>,
      <<"u", "n", "i", "o", "n", " ", "\n", " ", "s", "e", "l", "e", "c", "t">>,
      <<"U", "N", "I", "O", "N", "S", "E", "L", "E", "C", "T">>,
      <<"e", "x", "(", "1", ")">>,
      <<"-", "-">>,
      <<"-", " ", "-">>,
      <<"/", "*">>,
      <<"*", "/">> }

Bodies == KeywordBodies \cup OtherBodies

Tails == { <<>>, <<" ", "t">>, <<" ", "(", "1", ")">> }

\* the heads and bodies that are also tried at the length limit
LongHeads == { kwSELECT, <<"x">> }

LongBodies == { <<"d", "r", "o", "p">>, <<"-", "-">>, <<" ", "1">> }

ShortInputs ==
    [lead : Leads, head : Heads, sep : Seps, body : Bodies, tail : Tails,
     fill : {0}, allow : BOOLEAN]

LongInputs ==
    [lead : {<<>>}, head : LongHeads, sep : {<<>>}, body : LongBodies,
     tail : {<<>>}, fill : {MaxQueryLength, MaxQueryLength + 1},
     allow : BOOLEAN]

\* the text of an input; fill > 0 fills it up with x's to that length
QueryText(in) ==
    LET t == in.lead \o in.head \o in.sep \o in.body \o in.tail
    IN  IF in.fill > Len(t) THEN t \o Repeat("x", in.fill - Len(t)) ELSE t

NoOut == [fn |-> "none", flag |-> FALSE, errors |-> <<>>]

ValidatorInputs == ShortInputs \cup LongInputs

CallValidateQuery ==
    /\ vOut.fn = "none"
    /\ LET r == validateQuery(QueryText(vIn), vIn.allow)
       IN  vOut' = [fn |-> "validateQuery", flag |-> r.isValid,
                    errors |-> r.errors]
    /\ UNCHANGED <<vIn, dispVars>>

CallIsReadOnlyQuery ==
    /\ vOut.fn = "none"
    /\ vOut' = [fn |-> "isReadOnlyQuery",
                flag |-> isReadOnlyQuery(QueryText(vIn)), errors |-> <<>>]
    /\ UNCHANGED <<vIn, dispVars>>

ValidatorNext == CallValidateQuery \/ CallIsReadOnlyQuery

(***************************************************************************)
(* The database behind the gateway: one table, dbo.users.  A metadata      *)
(* sub-query returns the rows of the catalogue for the table and schema    *)
(* bound to @tableName and @schemaName, none for any other name.           *)
(***************************************************************************)
tUsers == <<"u", "s", "e", "r", "s">>

tDbo == <<"d", "b", "o">>

SubQueries == <<"columns", "primaryKeys", "foreignKeys", "indexes">>

Catalogue(sub, tableName, schemaName) ==
    IF tableName = tUsers /\ schemaName = tDbo
    THEN CASE sub = "columns" -> <<"id", "name">>
           [] sub = "primaryKeys" -> <<"id">>
           [] sub = "foreignKeys" -> <<>>
           [] sub = "indexes" -> <<"PK_users">>
    ELSE <<>>

TableExists(tableName, schemaName) ==
    Catalogue("columns", tableName, schemaName) # <<>>

(***************************************************************************)
(* DatabaseConnection: the gateway.  A call of executeQuery or             *)
(* executeStoredProcedure runs to its first await in one step: it finds    *)
(* the pool connected and issues the request, or it enters connect(),      *)
(* which constructs a pool, stores it in this.pool and awaits its          *)
(* handshake.                                                              *)
(***************************************************************************)
\* the static field is undefined, no DatabaseConnection was constructed and
\* getInstance was never called
NoInstance == [id |-> 0, config |-> "", made |-> 0, got |-> <<>>]

\* this.pool?.connected
PoolConnected(ps, p) == p # 0 /\ ps[p].state = "connected"

NewPool == [state |-> "connecting"]

\* a gateway invocation awaiting the handshake of pool p
ConnectingTask(op, sub, text, params, p) ==
    [op |-> op, sub |-> sub, text |-> text, params |-> params,
     pc |-> "connecting", pl |-> p, rows |-> <<>>, recordset |-> FALSE,
     err |-> ""]

\* a gateway invocation whose request is issued on the connected pool p
RequestingTask(op, sub, text, params, p) ==
    [op |-> op, sub |-> sub, text |-> text, params |-> params,
     pc |-> "requesting", pl |-> p, rows |-> <<>>, recordset |-> FALSE,
     err |-> ""]

\* executeQuery / executeStoredProcedure / connect up to the first await;
\* connect() without its test of this.pool?.connected
GwStartAlwaysConnects(g, op, sub, text, params) ==
    LET ps == Append(g.pools, NewPool)
    IN  [pools |-> ps, pool |-> Len(ps),
         tasks |-> Append(g.tasks,
                     ConnectingTask(op, sub, text, params, Len(ps)))]

\* the gateway testing `this.pool` where the code tests this.pool?.connected:
\* a pool is only ever constructed when there is none
GwStartKeepsPool(g, op, sub, text, params) ==
    IF g.pool # 0
    THEN IF op = "connect"
         THEN [pools |-> g.pools, pool |-> g.pool,
               tasks |-> Append(g.tasks,
                           [ConnectingTask(op, sub, text, params, g.pool)
                              EXCEPT !.pc = "ok"])]
         ELSE [pools |-> g.pools, pool |-> g.pool,
               tasks |-> Append(g.tasks,
                           RequestingTask(op, sub, text, params, g.pool))]
    ELSE LET ps == Append(g.pools, NewPool)
         IN  [pools |-> ps, pool |-> Len(ps),
              tasks |-> Append(g.tasks,
                          ConnectingTask(op, sub, text, params, Len(ps)))]

\* g is the gateway (pools, pool) and the tasks started so far
GwStart(g, op, sub, text, params) ==
    IF PoolConnected(g.pools, g.pool)
    THEN IF op = "connect"
         THEN [pools |-> g.pools, pool |-> g.pool,
               tasks |-> Append(g.tasks,
                           [ConnectingTask(op, sub, text, params, g.pool)
                              EXCEPT !.pc = "ok"])]
         ELSE [pools |-> g.pools, pool |-> g.pool,
               tasks |-> Append(g.tasks,
                           RequestingTask(op, sub, text, params, g.pool))]
    ELSE LET ps == Append(g.pools, NewPool)
         IN  [pools |-> ps, pool |-> Len(ps),
              tasks |-> Append(g.tasks,
                          ConnectingTask(op, sub, text, params, Len(ps)))]

(***************************************************************************)
(* Tool calls.  An argument that is a text is a JavaScript value: a string *)
(* or undefined (the argument is missing).                                 *)
(***************************************************************************)
Calls == 1..MaxCalls

RECURSIVE TaskCount(_, _)

Str(s) == [typ |-> "string", s |-> s]

Undefined == [typ |-> "undefined", s |-> <<>>]

\* !x || typeof x !== 'string'
MissingString(x) == x.typ # "string" \/ x.s = <<>>

\* the truthiness of an allowWriteOperations argument, false when undefined
Truthy(allow) == allow \in {"true", "1"}

\* shape is what the caller passed for the arguments: a record, a record
\* whose `parameters` is null ("nullParameters"), or nothing ("undefined")
NoArgs ==
    [shape |-> "record", str1 |-> Undefined, str2 |-> Undefined,
     parameters |-> <<>>, allow |-> "undefined", limit |-> 0]

NoAnswer ==
    [connected |-> "", recordCount |-> 0, recordset |-> <<>>,
     analyzer |-> "none",
     tableName |-> <<>>, schema |-> <<>>, columns |-> <<>>,
     primaryKeys |-> <<>>, foreignKeys |-> <<>>, indexes |-> <<>>]

\* message is the text of a structured error: what it is prefixed with and
\* the underlying message it carries
IdleCall ==
    [pc |-> "idle", name |-> "", args |-> NoArgs, kind |-> "",
     message |-> <<>>, answer |-> NoAnswer, sql |-> <<>>]

\* the number of gateway invocations made so far
TaskCount(ts, c) == IF c = 0 THEN 0 ELSE Len(ts[c]) + TaskCount(ts, c - 1)

\* the call c is yet to be made and may make k gateway invocations; calls are
\* made in the order of their ids
CanCall(c, k) ==
    /\ calls[c].pc = "idle"
    /\ IF c = 1 THEN TRUE ELSE calls[c - 1].pc # "idle"
    /\ TaskCount(tasks, MaxCalls) + k <= MaxTasks

Gateway == [pools |-> pools, pool |-> pool, tasks |-> <<>>]

\* the message of a TypeError of the JavaScript engine
TypeErrorMessage == "TypeError"

(***************************************************************************)
(* What happens after an await.  The continuations that an I/O event       *)
(* makes runnable run to completion before the next I/O event is handled,  *)
(* so an event's step runs the awaiting code up to its next await: through *)
(* connect(), executeQuery, Promise.all, the handler and callTool.         *)
(***************************************************************************)
\* executeQuery / executeStoredProcedure with a connect() that swallows the
\* failed handshake, so that the invocation returns an empty result
AfterConnectSwallows(t, ps) ==
    IF ps[t.pl].state = "failed"
    THEN [t EXCEPT !.pc = "ok", !.recordset = TRUE]
    ELSE IF t.op = "connect"
    THEN [t EXCEPT !.pc = "ok"]
    ELSE IF pool = 0
    THEN [t EXCEPT !.pc = "err",
                   !.err = "Database connection not established"]
    ELSE IF ~PoolConnected(ps, pool)
    THEN [t EXCEPT !.pc = "err", !.pl = pool, !.err = "Connection not yet open"]
    ELSE [t EXCEPT !.pc = "requesting", !.pl = pool]

\* a gateway invocation goes on after `await this.connect()`: connect()
\* rethrows a failed handshake; executeQuery and executeStoredProcedure then
\* issue the request on what this.pool is now, and the driver rejects a
\* request on a pool that is not connected.  ps is the pools after the
\* handshake
AfterConnect(t, ps) ==
    IF ps[t.pl].state = "failed"
    THEN [t EXCEPT !.pc = "err", !.err = "connect failed"]
    ELSE IF t.op = "connect"
    THEN [t EXCEPT !.pc = "ok"]
    ELSE IF pool = 0
    THEN [t EXCEPT !.pc = "err",
                   !.err = "Database connection not established"]
    ELSE IF ~PoolConnected(ps, pool)
    THEN [t EXCEPT !.pc = "err", !.pl = pool, !.err = "Connection not yet open"]
    ELSE [t EXCEPT !.pc = "requesting", !.pl = pool]

\* the statement returns rows: the driver's result has a recordset
ReturnsRows(text) ==
    LET u == ToUpperCase(Trim(text))
    IN  StartsWith(u, kwSELECT) \/ StartsWith(u, kwWITH)

\* the result of a request: the catalogue's rows for a metadata sub-query, n
\* rows for an ad-hoc query that returns rows or for a procedure, and no
\* recordset for any other statement
Fulfilled(t, n) ==
    IF t.sub # ""
    THEN [t EXCEPT !.pc = "ok", !.recordset = TRUE,
                   !.rows = Catalogue(t.sub, t.params[1].value.s,
                                      t.params[2].value.s)]
    ELSE IF t.op = "executeQuery" /\ ~ReturnsRows(t.text)
    THEN [t EXCEPT !.pc = "ok"]
    ELSE [t EXCEPT !.pc = "ok", !.recordset = TRUE,
                   !.rows = SubSeq([k \in 1..n |-> k], 1, n)]

\* Promise.all over the invocations ts has settled: one of them rejected, or
\* all are fulfilled
Settled(ts) ==
    \/ \E i \in DOMAIN ts : ts[i].pc = "err"
    \/ \A i \in DOMAIN ts : ts[i].pc = "ok"

Rejected(ts) == \E i \in DOMAIN ts : ts[i].pc = "err"

\* MCPHandlers.executeQuery after `await this.db.executeQuery`, and
\* MCPHandlers.executeStoredProcedure after `await this.db.executeStoredProcedure`;
\* result.recordset.length throws inside the try block when the result has
\* no recordset
ExecuteReturns(call, ts) ==
    IF Rejected(ts) \/ ~ts[1].recordset
    THEN [call EXCEPT
            !.pc = "done", !.kind = "InternalError",
            !.message =
               << IF call.name = "execute_query"
                  THEN "Query execution failed"
                  ELSE "Stored procedure execution failed",
                  IF Rejected(ts) THEN ts[1].err ELSE TypeErrorMessage >>]
    ELSE [call EXCEPT !.pc = "done", !.kind = "ok",
                      !.answer = [NoAnswer EXCEPT
                                     !.recordset = ts[1].rows,
                                     !.recordCount = Len(ts[1].rows)]]

\* getTableSchema joining with Promise.allSettled: a record is built from
\* whatever was fulfilled
TableSchemaOfSettled(ts) ==
    [NoAnswer EXCEPT !.analyzer = "record",
                     !.tableName = ts[1].params[1].value.s,
                     !.schema = ts[1].params[2].value.s,
                     !.columns = ts[1].rows,
                     !.primaryKeys = ts[2].rows,
                     !.foreignKeys = ts[3].rows,
                     !.indexes = ts[4].rows]

\* SchemaAnalyzer.getTableSchema after its Promise.all: the combined record,
\* or null from the catch block when a sub-query failed
TableSchemaOf(ts) ==
    IF Rejected(ts)
    THEN [NoAnswer EXCEPT !.analyzer = "null"]
    ELSE [NoAnswer EXCEPT !.analyzer = "record",
                          !.tableName = ts[1].params[1].value.s,
                          !.schema = ts[1].params[2].value.s,
                          !.columns = ts[1].rows,
                          !.primaryKeys = ts[2].rows,
                          !.foreignKeys = ts[3].rows,
                          !.indexes = ts[4].rows]

\* MCPHandlers.getTableSchema after `await this.schemaAnalyzer.getTableSchema`
GetTableSchemaReturns(call, ts) ==
    LET schema == TableSchemaOf(ts)
    IN  IF schema.analyzer = "null"
        THEN [call EXCEPT !.pc = "done", !.kind = "InvalidParams",
                          !.message = <<"Table not found">>,
                          !.answer = schema]
        ELSE [call EXCEPT !.pc = "done", !.kind = "ok", !.answer = schema]

\* the caller of connect() after its await
ConnectReturns(call, ts) ==
    [call EXCEPT !.pc = "done",
                 !.kind = IF Rejected(ts) THEN "Error" ELSE "ok"]

ProbeSql ==
    <<"S", "E", "L", "E", "C", "T", " ", "1", " ", "a", "s", " ", "t", "e",
      "s", "t", "_", "c", "o", "n", "n", "e", "c", "t", "i", "o", "n">>

\* MCPHandlers.testConnection after `await this.db.connect()`: the probe
\* query comes next
ProbeStarts(call, ts) ==
    /\ call.name = "test_connection"
    /\ call.pc = "running"
    /\ Len(ts) = 1
    /\ ts[1].op = "connect"
    /\ ts[1].pc = "ok"

\* testConnection with the catch block of the other handlers
TestConnectionReturnsThrows(call, ts) ==
    IF Rejected(ts) \/ ~ts[Len(ts)].recordset
    THEN [call EXCEPT !.pc = "done", !.kind = "InternalError"]
    ELSE [call EXCEPT !.pc = "done", !.kind = "ok",
                      !.answer = [NoAnswer EXCEPT !.connected = "true"]]

\* MCPHandlers.testConnection once connect or the probe has failed, or the
\* probe has succeeded: its catch block returns a normal result
TestConnectionReturns(call, ts) ==
    IF Rejected(ts)
    THEN [call EXCEPT
            !.pc = "done", !.kind = "ok",
            !.message = <<"Database connection failed", ts[Len(ts)].err>>,
            !.answer = [NoAnswer EXCEPT !.connected = "false"]]
    ELSE IF ~ts[Len(ts)].recordset
    THEN [call EXCEPT
            !.pc = "done", !.kind = "ok",
            !.message = <<"Database connection failed", TypeErrorMessage>>,
            !.answer = [NoAnswer EXCEPT !.connected = "false"]]
    ELSE [call EXCEPT
            !.pc = "done", !.kind = "ok",
            !.message = <<"Database connection is healthy">>,
            !.answer = [NoAnswer EXCEPT !.connected = "true"]]

\* the call as it is once the invocations ts it awaits have got this far
Returns(call, ts) ==
    IF call.pc # "running" \/ ~Settled(ts) THEN call
    ELSE CASE call.name = "get_table_schema" -> GetTableSchemaReturns(call, ts)
           [] call.name = "connect" -> ConnectReturns(call, ts)
           [] call.name = "test_connection" -> TestConnectionReturns(call, ts)
           [] OTHER -> ExecuteReturns(call, ts)

(***************************************************************************)
(* The handlers of MCPHandlers, each up to its first await.                *)
(***************************************************************************)
\* the kinds of McpError
McpErrorKinds == {"InvalidParams", "MethodNotFound", "InternalError"}

\* a catch block that wraps whatever it catches
CallToolCatchWrapAll(error) == "InternalError"

\* the catch block of callTool: an McpError is rethrown as it is, anything
\* else is wrapped as InternalError
CallToolCatch(error) ==
    IF error \in McpErrorKinds THEN error ELSE "InternalError"

\* the call c throws before its first await, a structured error or a raw one,
\* and callTool's catch block settles the kind and the message
Throw(c, name, args, error) ==
    calls' = [calls EXCEPT ![c] =
                [IdleCall EXCEPT
                    !.pc = "done", !.name = name, !.args = args,
                    !.kind = CallToolCatch(error),
                    !.message = IF error \in McpErrorKinds THEN <<>>
                                ELSE <<"Failed to execute tool", name,
                                       TypeErrorMessage>>]]

\* the call c awaits the gateway invocations of g
Await(c, name, args, g) ==
    /\ calls' = [calls EXCEPT ![c] =
                   Returns([IdleCall EXCEPT !.pc = "running", !.name = name,
                                            !.args = args], g.tasks)]
    /\ tasks' = [tasks EXCEPT ![c] = g.tasks]
    /\ pools' = g.pools
    /\ pool' = g.pool

\* the handlers without their loop over the parameters
ParametersValidAny(parameters) == TRUE

\* every value of the parameters map passes validateParameter(value, 'varchar')
ParametersValid(parameters) ==
    \A i \in DOMAIN parameters :
        validateParameter(parameters[i].value, "varchar")

\* what MCPHandlers.executeQuery throws before its first await, "" if nothing:
\* destructuring no arguments and Object.entries(null) throw a TypeError
ExecuteQueryThrows(args) ==
    IF args.shape = "undefined" THEN "TypeError"
    ELSE IF MissingString(args.str1) THEN "InvalidParams"
    ELSE IF ~validateQuery(args.str1.s, Truthy(args.allow)).isValid
    THEN "InvalidParams"
    ELSE IF args.shape = "nullParameters" THEN "TypeError"
    ELSE IF ~ParametersValid(args.parameters) THEN "InvalidParams"
    ELSE ""

\* MCPHandlers.executeQuery up to its first await
ExecuteQuery(c, args) ==
    /\ CanCall(c, 1)
    /\ IF ExecuteQueryThrows(args) # ""
       THEN /\ Throw(c, "execute_query", args, ExecuteQueryThrows(args))
            /\ UNCHANGED <<pools, pool, tasks>>
       ELSE Await(c, "execute_query", args,
                  GwStart(Gateway, "executeQuery", "", args.str1.s,
                          args.parameters))
    /\ UNCHANGED <<aloneVars, sweepVars, vIn, vOut, closers, instance, sPool>>

\* what MCPHandlers.executeStoredProcedure throws before its first await
ExecuteStoredProcedureThrows(args) ==
    IF args.shape = "undefined" THEN "TypeError"
    ELSE IF MissingString(args.str1) THEN "InvalidParams"
    ELSE IF ~isValidProcedureName(args.str1.s) THEN "InvalidParams"
    ELSE IF args.shape = "nullParameters" THEN "TypeError"
    ELSE IF ~ParametersValid(args.parameters) THEN "InvalidParams"
    ELSE ""

\* MCPHandlers.executeStoredProcedure up to its first await
ExecuteStoredProcedure(c, args) ==
    /\ CanCall(c, 1)
    /\ IF ExecuteStoredProcedureThrows(args) # ""
       THEN /\ Throw(c, "execute_stored_procedure", args,
                     ExecuteStoredProcedureThrows(args))
            /\ UNCHANGED <<pools, pool, tasks>>
       ELSE Await(c, "execute_stored_procedure", args,
                  GwStart(Gateway, "executeStoredProcedure", "", args.str1.s,
                          args.parameters))
    /\ UNCHANGED <<aloneVars, sweepVars, vIn, vOut, closers, instance, sPool>>

\* the named parameters of a metadata sub-query
MetaParams(tableName, schemaName) ==
    << [key |-> "tableName", value |-> Str(tableName)],
       [key |-> "schemaName", value |-> Str(schemaName)] >>

\* SchemaAnalyzer.getTableSchema up to its await: the four sub-queries are
\* started one after the other, each running to its own first await
StartTableSchema(g, tableName, schemaName) ==
    LET ps == MetaParams(tableName, schemaName)
        g1 == GwStart(g, "executeQuery", SubQueries[1], <<>>, ps)
        g2 == GwStart(g1, "executeQuery", SubQueries[2], <<>>, ps)
        g3 == GwStart(g2, "executeQuery", SubQueries[3], <<>>, ps)
    IN  GwStart(g3, "executeQuery", SubQueries[4], <<>>, ps)

\* MCPHandlers.getTableSchema up to its first await
GetTableSchema(c, args) ==
    /\ CanCall(c, 4)
    /\ IF args.shape = "undefined" \/ MissingString(args.str1)
       THEN /\ Throw(c, "get_table_schema", args,
                     IF args.shape = "undefined" THEN "TypeError"
                     ELSE "InvalidParams")
            /\ UNCHANGED <<pools, pool, tasks>>
       ELSE LET schemaName == IF args.str2.typ = "undefined"
                              THEN tDbo ELSE args.str2.s
            IN  Await(c, "get_table_schema", args,
                      StartTableSchema(Gateway,
                                       sanitizeIdentifier(args.str1.s),
                                       sanitizeIdentifier(schemaName)))
    /\ UNCHANGED <<aloneVars, sweepVars, vIn, vOut, closers, instance, sPool>>

\* DatabaseConnection.connect called directly, as MCPServer.start does
Connect(c) ==
    /\ CanCall(c, 1)
    /\ Await(c, "connect", NoArgs, GwStart(Gateway, "connect", "", <<>>, <<>>))
    /\ UNCHANGED <<aloneVars, sweepVars, vIn, vOut, closers, instance, sPool>>

\* DatabaseConnection.isConnected: this.pool?.connected || false
isConnected == PoolConnected(pools, pool)

\* MCPHandlers.testConnection up to its first await: connect() when
\* isConnected() is false, else the probe query at once
TestConnection(c) ==
    /\ CanCall(c, 2)
    /\ Await(c, "test_connection", NoArgs,
             IF isConnected
             THEN GwStart(Gateway, "executeQuery", "", ProbeSql, <<>>)
             ELSE GwStart(Gateway, "connect", "", <<>>, <<>>))
    /\ UNCHANGED <<aloneVars, sweepVars, vIn, vOut, closers, instance, sPool>>

\* callTool with a name that is none of the six tools: the default branch
UnknownTool(c, name) ==
    /\ CanCall(c, 0)
    /\ Throw(c, name, NoArgs, "MethodNotFound")
    /\ UNCHANGED <<aloneVars, sweepVars, vIn, vOut, closers, instance, pools,
                   pool, tasks, sPool>>

\* DatabaseConnection.disconnect up to its await: nothing to do without a
\* handle, else pool.close() is awaited.  close() ends the pool's being
\* connected at once
Disconnect ==
    /\ Len(closers) < MaxDisconnects
    /\ IF pool = 0
       THEN /\ closers' = Append(closers, [pl |-> 0, pc |-> "ok"])
            /\ pools' = pools
       ELSE /\ closers' = Append(closers, [pl |-> pool, pc |-> "closing"])
            /\ pools' = [pools EXCEPT ![pool].state =
                            IF @ = "connected" THEN "closing" ELSE @]
    /\ UNCHANGED <<aloneVars, sweepVars, vIn, vOut, instance, pool, calls,
                   tasks, sPool>>

\* disconnect without `this.pool = null`
CloseSettlesKeepsHandle(k, ok) ==
    /\ k \in DOMAIN closers
    /\ closers[k].pc = "closing"
    /\ ok => pools[closers[k].pl].state # "connecting"
    /\ closers' = [closers EXCEPT ![k].pc = IF ok THEN "ok" ELSE "err"]
    /\ pools' = IF ok THEN [pools EXCEPT ![closers[k].pl].state = "closed"]
                ELSE pools
    /\ UNCHANGED <<aloneVars, sweepVars, vIn, vOut, instance, pool, calls,
                   tasks, sPool>>

\* pool.close() settles and disconnect goes on: `this.pool = null` clears
\* whatever the handle is then.  The driver refuses to close a pool that is
\* connecting; a failed close leaves the handle
CloseSettles(k, ok) ==
    /\ k \in DOMAIN closers
    /\ closers[k].pc = "closing"
    /\ ok => pools[closers[k].pl].state # "connecting"
    /\ IF ok
       THEN /\ closers' = [closers EXCEPT ![k].pc = "ok"]
            /\ pools' = [pools EXCEPT ![closers[k].pl].state = "closed"]
            /\ pool' = 0
       ELSE /\ closers' = [closers EXCEPT ![k].pc = "err"]
            /\ pools' = pools
            /\ pool' = pool
    /\ UNCHANGED <<aloneVars, sweepVars, vIn, vOut, instance, calls, tasks,
                   sPool>>

(***************************************************************************)
(* The I/O events.                                                         *)
(***************************************************************************)
\* a running call has an invocation that awaits the handshake of pool p
Awaited(p) ==
    \E c \in Calls :
        /\ calls[c].pc = "running"
        /\ \E i \in DOMAIN tasks[c] :
              tasks[c][i].pc = "connecting" /\ tasks[c][i].pl = p

\* the handshake of pool p ends (ConnectionPool.connect settles), and the
\* invocation that awaits it goes on, test_connection with its probe query;
\* what a call that has returned left behind is not followed
PoolHandshake(p, ok) ==
    /\ p \in DOMAIN pools
    /\ pools[p].state = "connecting"
    /\ p = pool \/ Awaited(p)
    /\ LET ps == [pools EXCEPT ![p].state =
                     IF ok THEN "connected" ELSE "failed"]
           ts == [c \in Calls |->
                    [i \in DOMAIN tasks[c] |->
                       IF /\ calls[c].pc = "running"
                          /\ tasks[c][i].pc = "connecting"
                          /\ tasks[c][i].pl = p
                       THEN AfterConnect(tasks[c][i], ps)
                       ELSE tasks[c][i]]]
           probing == {c \in Calls : ProbeStarts(calls[c], ts[c])}
           g == IF probing = {}
                THEN [pools |-> ps, pool |-> pool, tasks |-> <<>>]
                ELSE GwStart([pools |-> ps, pool |-> pool,
                              tasks |-> ts[CHOOSE c \in probing : TRUE]],
                             "executeQuery", "", ProbeSql, <<>>)
           ts2 == [c \in Calls |-> IF c \in probing THEN g.tasks ELSE ts[c]]
       IN  /\ pools' = g.pools
           /\ pool' = g.pool
           /\ tasks' = ts2
           /\ calls' = [c \in Calls |-> Returns(calls[c], ts2[c])]
    /\ UNCHANGED <<aloneVars, sweepVars, vIn, vOut, closers, instance, sPool>>

\* request.query / request.execute of a running call settles
RequestSettles(c, i, ok, n) ==
    /\ calls[c].pc = "running"
    /\ i \in DOMAIN tasks[c]
    /\ tasks[c][i].pc = "requesting"
    /\ LET t == tasks[c][i]
           ts == [tasks[c] EXCEPT ![i] =
                    IF ok
                    THEN Fulfilled(t, n)
                    ELSE [t EXCEPT !.pc = "err", !.err = "driver error"]]
       IN  /\ tasks' = [tasks EXCEPT ![c] = ts]
           /\ calls' = [calls EXCEPT ![c] = Returns(calls[c], ts)]
    /\ UNCHANGED <<aloneVars, sweepVars, vIn, vOut, closers, instance, pools,
                   pool, sPool>>

(***************************************************************************)
(* The standalone server: getPool and the get_table_data tool.  The        *)
(* backtick is written "bq".                                               *)
(***************************************************************************)
Backtick == "bq"

SmokeSql == <<"S", "E", "L", "E", "C", "T", " ", "1", " ", "A", "S", " ", "o", "k">>

SelectFrom == <<"S", "E", "L", "E", "C", "T", " ", "*", " ", "F", "R", "O", "M", " ">>

LimitTail == <<" ", "L", "I", "M", "I", "T", " ", "?">>

\* `SELECT * FROM \`${table_name}\` LIMIT ?`
TableDataSql(table_name) ==
    SelectFrom \o <<Backtick>> \o table_name \o <<Backtick>> \o LimitTail

\* the statement a standalone tool passes to p.query
StatementOf(name, args) ==
    IF name = "get_table_data" THEN TableDataSql(args.str1.s) ELSE args.str1.s

\* `const p = await getPool()` and what follows up to the next await:
\* getPool() creates the pool and awaits its smoke test when there is none,
\* else the tool's statement is issued
GetPoolThenQuery(c, name, args) ==
    IF sPool = 0
    THEN /\ sPool' = 1
         /\ calls' = [calls EXCEPT ![c] =
               [IdleCall EXCEPT !.pc = "smoke", !.name = name,
                                !.args = args, !.sql = <<SmokeSql>>]]
    ELSE /\ sPool' = sPool
         /\ calls' = [calls EXCEPT ![c] =
               [IdleCall EXCEPT !.pc = "query", !.name = name, !.args = args,
                                !.sql = <<StatementOf(name, args)>>]]

\* get_table_data up to its first await
GetTableData(c, args) ==
    /\ CanCall(c, 0)
    /\ GetPoolThenQuery(c, "get_table_data", args)
    /\ UNCHANGED <<aloneVars, sweepVars, vIn, vOut, closers, instance, pools,
                   pool, tasks>>

kwDROP == <<"D", "R", "O", "P">>

kwDELETE == <<"D", "E", "L", "E", "T", "E">>

kwTRUNCATE == <<"T", "R", "U", "N", "C", "A", "T", "E">>

\* the standalone execute_query's test of the trimmed, upper-cased text
IsDestructive(query) ==
    LET upper == ToUpperCase(Trim(query))
    IN  \/ StartsWith(upper, kwDROP)
        \/ StartsWith(upper, kwDELETE)
        \/ StartsWith(upper, kwTRUNCATE)

\* the standalone execute_query up to its first await: a text that the test
\* takes for destructive is answered with an error result
StandaloneExecuteQuery(c, args) ==
    /\ CanCall(c, 0)
    /\ IF IsDestructive(args.str1.s)
       THEN /\ calls' = [calls EXCEPT ![c] =
                  [IdleCall EXCEPT !.pc = "done", !.name = "execute_query",
                                   !.args = args, !.kind = "isError"]]
            /\ sPool' = sPool
       ELSE GetPoolThenQuery(c, "execute_query", args)
    /\ UNCHANGED <<aloneVars, sweepVars, vIn, vOut, closers, instance, pools,
                   pool, tasks>>

\* getPool after `await pool.query("SELECT 1 AS ok")`, then the tool's
\* statement
SmokeTestSettles(c, ok) ==
    /\ calls[c].pc = "smoke"
    /\ calls' = [calls EXCEPT ![c] =
          IF ok
          THEN [@ EXCEPT !.pc = "query",
                         !.sql = Append(@, StatementOf(calls[c].name,
                                                       calls[c].args))]
          ELSE [@ EXCEPT !.pc = "done", !.kind = "isError"]]
    /\ UNCHANGED <<aloneVars, sweepVars, vIn, vOut, closers, instance, pools,
                   pool, tasks, sPool>>

\* a standalone tool after `await p.query(...)`
TableDataSettles(c, ok, n) ==
    /\ calls[c].pc = "query"
    /\ calls' = [calls EXCEPT ![c] =
          IF ok
          THEN [@ EXCEPT !.pc = "done", !.kind = "ok",
                         !.answer = [NoAnswer EXCEPT
                                        !.recordset = [k \in 1..n |-> k],
                                        !.recordCount = n]]
          ELSE [@ EXCEPT !.pc = "done", !.kind = "isError"]]
    /\ UNCHANGED <<aloneVars, sweepVars, vIn, vOut, closers, instance, pools,
                   pool, tasks, sPool>>

(***************************************************************************)
(* The arguments tool callers pass.                                        *)
(***************************************************************************)
qSelectById ==
    <<"S", "E", "L", "E", "C", "T", " ", "*", " ", "F", "R", "O", "M", " ",
      "u", "s", "e", "r", "s", " ", "W", "H", "E", "R", "E", " ", "i", "d",
      " ", "=", " ", "@", "i", "d">>

qDropTable ==
    <<"D", "R", "O", "P", " ", "T", "A", "B", "L", "E", " ", "u", "s", "e",
      "r", "s">>

tMissing ==
    <<"m", "i", "s", "s", "i", "n", "g", "_", "t", "a", "b", "l", "e">>

tInjected == <<"u", "s", "e", "r", "s", ";", " ", "-", "-">>

tBreakout == <<"t", Backtick, ";", " ", "D", "R", "O", "P", "-", "-">>

sQuoted == <<"d", "'", "b", "o">>

pGetUserPostCount ==
    <<"G", "e", "t", "U", "s", "e", "r", "P", "o", "s", "t", "C", "o", "u",
      "n", "t">>

pBad == <<"1", "b", "a", "d">>

AllowArgs == {"undefined", "false", "true", "1"}

Param(value) == << [key |-> "id", value |-> value] >>

ParameterArgs == {<<>>, Param(JsOne), Param(JsStrOne), Param(JsNull)}

QueryArgs(query, parameters, allow) ==
    [NoArgs EXCEPT !.str1 = query, !.parameters = parameters, !.allow = allow]

ExecuteQueryArgs ==
    { QueryArgs(q, <<>>, a) :
        q \in {Str(qSelectById), Str(qDropTable), Undefined}, a \in AllowArgs }
    \cup { QueryArgs(Str(qSelectById), ps, "undefined") : ps \in ParameterArgs }

TableSchemaArgs(tableName, schemaName) ==
    [NoArgs EXCEPT !.str1 = tableName, !.str2 = schemaName]

GetTableSchemaArgs ==
    { TableSchemaArgs(Str(tUsers), Undefined),
      TableSchemaArgs(Str(tMissing), Str(tDbo)),
      TableSchemaArgs(Str(tInjected), Str(sQuoted)),
      TableSchemaArgs(Undefined, Str(tDbo)) }

ExecuteStoredProcedureArgs ==
    { QueryArgs(n, <<>>, "undefined") :
        n \in {Str(pGetUserPostCount), Str(pBad), Undefined} }
    \cup { QueryArgs(Str(pGetUserPostCount), ps, "undefined") :
             ps \in ParameterArgs }

GetTableDataArgs ==
    [shape : {"record"},
     str1 : {Str(tUsers), Str(tBreakout), Str(tInjected)}, str2 : {Undefined},
     parameters : {<<>>}, allow : {"undefined"}, limit : {1, 10, 100}]

(***************************************************************************)
(* The identifiers sanitizeIdentifier is applied to: a head, a filling of  *)
(* one character up to and past the limit of 128, and a tail.              *)
(***************************************************************************)
idExample == <<"a", "'", "b", ";", " ", "D", "R", "O", "P", "-", "-">>

idDotted == <<"d", "b", "o", ".", "u", "s", "e", "r", "s", "_", "1">>

IdentifierHeads ==
    { <<>>, idExample, idDotted, tInjected, tBreakout, sQuoted, <<"[", "A", "]">> }

IdentifierFills ==
    {0, 1, MaxIdentifierLength - 1, MaxIdentifierLength, MaxIdentifierLength + 1}

IdentifierInputs ==
    [head : IdentifierHeads, fill : IdentifierFills,
     fillChar : {"x", "-", "."}, tail : { <<>>, <<"Z">>, <<";">> }]

IdentifierText(in) == in.head \o Repeat(in.fillChar, in.fill) \o in.tail

CallSanitizeIdentifier ==
    /\ vOut.fn = "none"
    /\ vOut' = [fn |-> "sanitizeIdentifier",
                text |-> sanitizeIdentifier(IdentifierText(vIn))]
    /\ UNCHANGED <<vIn, dispVars>>

(***************************************************************************)
(* The texts passed to the standalone execute_query.                       *)
(***************************************************************************)
qSelectOne == <<"S", "E", "L", "E", "C", "T", " ", "1">>

qLowerDrop == <<" ", "\n">> \o ToLowerCase(qDropTable)

qSelectThenDrop == qSelectOne \o <<";", " ">> \o qDropTable

qCommentThenDrop == <<"/", "*", "x", "*", "/", " ">> \o qDropTable

qDeleteFrom ==
    <<"d", "e", "l", "e", "t", "e", " ", "f", "r", "o", "m", " ", "t">>

qTruncated ==
    <<"S", "E", "L", "E", "C", "T", " ", "t", "r", "u", "n", "c", "a", "t",
      "e", "d", " ", "F", "R", "O", "M", " ", "t">>

StandaloneQueryArgs ==
    { QueryArgs(Str(q), <<>>, "undefined") :
        q \in {qSelectOne, qDropTable, qLowerDrop, qSelectThenDrop,
               qCommentThenDrop, qDeleteFrom, qTruncated} }

(***************************************************************************)
(* The calls made while the gateway is connected and disconnected: one     *)
(* well-formed query, and the missing and malformed arguments.             *)
(***************************************************************************)
NoArgumentRecord == [NoArgs EXCEPT !.shape = "undefined"]

NullParameters(str1) ==
    [NoArgs EXCEPT !.shape = "nullParameters", !.str1 = str1]

NotAString == [typ |-> "number", s |-> <<>>]

MalformedStrings == {Undefined, Str(<<>>), NotAString}

MalformedQueryArgs ==
    {NoArgumentRecord, NullParameters(Str(qSelectById)),
     NullParameters(Undefined)}
    \cup { QueryArgs(x, <<>>, "undefined") : x \in MalformedStrings }

MalformedProcedureArgs ==
    {NoArgumentRecord, NullParameters(Str(pGetUserPostCount))}
    \cup { QueryArgs(x, <<>>, "undefined") : x \in MalformedStrings }

MalformedTableSchemaArgs ==
    {NoArgumentRecord}
    \cup { TableSchemaArgs(x, Str(tDbo)) : x \in MalformedStrings }

ServiceQueryArgs ==
    MalformedQueryArgs \cup {QueryArgs(Str(qSelectById), <<>>, "undefined")}

UnknownNames == {"drop_table", "get_table_data"}

(***************************************************************************)
(* The gateway's singleton.  An instance is the number of its construction *)
(* and holds the configuration it was constructed with; instance.got is    *)
(* what the getInstance calls were passed and what they returned.          *)
(***************************************************************************)
MaxGetInstance == 4

\* a DatabaseConfig, told apart by its server
Configs == {"localhost", "replica", "staging"}

\* getInstance without its test of the static field
getInstanceAlwaysNew(config) ==
    /\ Len(instance.got) < MaxGetInstance
    /\ instance' = [id |-> instance.made + 1, config |-> config,
                    made |-> instance.made + 1,
                    got |-> Append(instance.got,
                               [passed |-> config, id |-> instance.made + 1,
                                config |-> config])]
    /\ UNCHANGED <<aloneVars, sweepVars, vIn, vOut, closers, pools, pool,
                   calls, tasks, sPool>>

\* DatabaseConnection.getInstance(config), as MCPServer's constructor calls
\* it: the private constructor runs only while the static field is unset
getInstance(config) ==
    /\ Len(instance.got) < MaxGetInstance
    /\ LET made == IF instance.id = 0
                   THEN [instance EXCEPT !.id = instance.made + 1,
                                         !.config = config,
                                         !.made = instance.made + 1]
                   ELSE instance
       IN  instance' = [made EXCEPT
                           !.got = Append(@, [passed |-> config,
                                              id |-> made.id,
                                              config |-> made.config])]
    /\ UNCHANGED <<aloneVars, sweepVars, vIn, vOut, closers, pools, pool,
                   calls, tasks, sPool>>

(***************************************************************************)
(* The standalone server's start: getPool() is awaited before the          *)
(* transport is connected, so tools are called only once the smoke test    *)
(* has succeeded; a failed start ends the process.                         *)
(***************************************************************************)
\* the start up to `await getPool()`
Startup ==
    /\ proc = "starting"
    /\ sPool = 0
    /\ sPool' = 1
    /\ proc' = "smoke"
    /\ UNCHANGED <<sConn, sweepVars, vIn, vOut, closers, instance, pools,
                   pool, calls, tasks>>

\* the smoke test of the start settles: server.connect(transport), or the
\* catch's process.exit(1)
StartupSettles(ok) ==
    /\ proc = "smoke"
    /\ proc' = IF ok THEN "serving" ELSE "exited"
    /\ UNCHANGED <<sConn, sweepVars, vIn, vOut, closers, instance, pools,
                   pool, calls, tasks, sPool>>

\* the transport is connected: tool calls arrive
Serving == proc = "serving"

(***************************************************************************)
(* The database's catalogue.  A table has its schema, its name, its        *)
(* columns in ordinal position and the columns of its primary key; a view  *)
(* has columns and a routine has parameters.  `tables` is in the order of  *)
(* the full names, the others in the order of schema and name.             *)
(***************************************************************************)
Dot == "."

tOrders == <<"o", "r", "d", "e", "r", "s">>

tUsersOld == tUsers \o <<Dot>> \o <<"o", "l", "d">>

sMyApp == <<"m", "y">> \o <<Dot>> \o <<"a", "p", "p">>

vActive == <<"a", "c", "t", "i", "v", "e">>

TableOf(schemaName, tableName, columns, primaryKeys) ==
    [schema |-> schemaName, name |-> tableName, columns |-> columns,
     primaryKeys |-> primaryKeys]

ItemOf(schemaName, name, rows) ==
    [schema |-> schemaName, name |-> name, rows |-> rows]

\* two tables
UsersAndOrders ==
    [tables |-> << TableOf(tDbo, tOrders, <<"id", "user_id">>, <<"id">>),
                   TableOf(tDbo, tUsers, <<"id", "name">>, <<"id">>) >>,
     views |-> <<>>,
     procedures |-> <<>>,
     functions |-> <<>>,
     altered |-> FALSE]

\* a table, a view, a procedure and a function
WithRoutines ==
    [tables |-> << TableOf(tDbo, tUsers, <<"id", "name">>, <<"id">>) >>,
     views |-> << ItemOf(tDbo, vActive, <<"id">>),
                  ItemOf(tDbo, tOrders, <<"id", "total">>) >>,
     procedures |-> << ItemOf(tDbo, pGetUserPostCount, <<"user_id">>) >>,
     functions |-> << ItemOf(tDbo, vActive, <<"n">>) >>,
     altered |-> FALSE]

\* a table whose name holds a dot, beside the table it seems to name
DottedTable ==
    [tables |-> << TableOf(tDbo, tUsers, <<"id", "name">>, <<"id">>),
                   TableOf(tDbo, tUsersOld, <<"id", "was">>, <<"id">>) >>,
     views |-> <<>>,
     procedures |-> <<>>,
     functions |-> <<>>,
     altered |-> FALSE]

\* a schema whose name holds a dot
DottedSchema ==
    [tables |-> << TableOf(sMyApp, tUsers, <<"id", "name">>, <<"id">>) >>,
     views |-> <<>>,
     procedures |-> <<>>,
     functions |-> <<>>,
     altered |-> FALSE]

Catalogues == {UsersAndOrders, WithRoutines, DottedTable, DottedSchema}

\* SCHEMA_NAME(schema_id) + '.' + name
FullName(tb) == tb.schema \o <<Dot>> \o tb.name

\* the tables of d that a sub-query's WHERE clause selects
Selected(d, tableName, schemaName) ==
    {i \in DOMAIN d.tables :
        d.tables[i].name = tableName /\ d.tables[i].schema = schemaName}

\* the rows of d.items[what] with that name and schema
RowsOf(items, name, schemaName) ==
    LET found == {i \in DOMAIN items :
                     items[i].name = name /\ items[i].schema = schemaName}
    IN  IF found = {} THEN <<>> ELSE items[CHOOSE i \in found : TRUE].rows

\* what the database d answers to the request r of the sweep
AnswerOf(d, r) ==
    LET sel == Selected(d, r.name, r.schema)
        tb == d.tables[CHOOSE i \in sel : TRUE]
    IN  CASE r.sub = "getAllTables" ->
                [i \in DOMAIN d.tables |-> FullName(d.tables[i])]
          [] r.sub = "getAllViews" ->
                [i \in DOMAIN d.views |->
                    [schema |-> d.views[i].schema, name |-> d.views[i].name]]
          [] r.sub = "getAllProcedures" ->
                [i \in DOMAIN d.procedures |->
                    [schema |-> d.procedures[i].schema,
                     name |-> d.procedures[i].name]]
          [] r.sub = "getAllFunctions" ->
                [i \in DOMAIN d.functions |->
                    [schema |-> d.functions[i].schema,
                     name |-> d.functions[i].name]]
          [] r.sub = "columns" -> IF sel = {} THEN <<>> ELSE tb.columns
          [] r.sub = "primaryKeys" ->
                IF sel = {} THEN <<>> ELSE tb.primaryKeys
          [] r.sub = "getViewColumns" -> RowsOf(d.views, r.name, r.schema)
          [] r.sub = "procedureParameters" ->
                RowsOf(d.procedures, r.name, r.schema)
          [] r.sub = "functionParameters" ->
                RowsOf(d.functions, r.name, r.schema)
          [] OTHER -> <<>>

\* another client alters the primary key column of the table users, or
\* drops the table, while a sweep runs
AlterTable(i, drop) ==
    /\ ~db.altered
    /\ sweep.pc = "running"
    /\ i \in DOMAIN db.tables
    /\ db.tables[i].name = tUsers
    /\ db' = [db EXCEPT
                !.altered = TRUE,
                !.tables =
                    IF drop
                    THEN SubSeq(@, 1, i - 1) \o SubSeq(@, i + 1, Len(@))
                    ELSE [@ EXCEPT ![i].columns = <<"uid">> \o Tail(@),
                                   ![i].primaryKeys = <<"uid">>]]
    /\ UNCHANGED <<aloneVars, sweep, vIn, vOut, closers, instance, pools,
                   pool, calls, tasks, sPool>>

(***************************************************************************)
(* SchemaAnalyzer.getDatabaseMetadata on a connected gateway, where every  *)
(* executeQuery issues its request at once.  Each of getAllTableSchemas,   *)
(* getAllViews, getAllProcedures and getAllFunctions is a loop of its own; *)
(* reqs are the requests it has issued, in order.                          *)
(***************************************************************************)
Classes == {"tables", "views", "procedures", "functions"}

\* the query that enumerates a class and the query made for each item
Listing(x) ==
    CASE x = "tables" -> "getAllTables"
      [] x = "views" -> "getAllViews"
      [] x = "procedures" -> "getAllProcedures"
      [] x = "functions" -> "getAllFunctions"

PerItem(x) ==
    CASE x = "views" -> "getViewColumns"
      [] x = "procedures" -> "procedureParameters"
      [] x = "functions" -> "functionParameters"

\* a request issued for the item k of a class, 0 for the enumeration
Request(k, sub, name, schemaName) ==
    [item |-> k, sub |-> sub, name |-> name, schema |-> schemaName,
     st |-> "pending", rows |-> <<>>]

NoClass == [pc |-> "idle", found |-> <<>>, k |-> 0, out |-> <<>>,
            reqs |-> <<>>]

\* no sweep has been started
NoSweep == [pc |-> "idle", cls |-> [x \in Classes |-> NoClass]]

RECURSIVE Split(_, _)

\* String.prototype.split with a separator of one character
Split(s, sep) ==
    LET at == {i \in DOMAIN s : s[i] = sep}
    IN  IF at = {} THEN <<s>>
        ELSE LET i == CHOOSE j \in at : \A m \in at : j <= m
             IN  <<SubSeq(s, 1, i - 1)>> \o Split(SubSeq(s, i + 1, Len(s)), sep)

\* `const [schema, table] = fullName.split('.')`
SchemaAndTable(fullName) ==
    LET parts == Split(fullName, Dot)
    IN  [schema |-> parts[1],
         table |-> IF Len(parts) > 1 THEN parts[2] ELSE <<>>]

\* the requests a loop issues for its item k: getTableSchema's four
\* sub-queries for a table, one query for a view or a routine
ItemRequests(x, found, k) ==
    IF x = "tables"
    THEN LET st == SchemaAndTable(found[k])
         IN  [i \in 1..4 |-> Request(k, SubQueries[i], st.table, st.schema)]
    ELSE << Request(k, PerItem(x), found[k].name, found[k].schema) >>

\* the loop goes on to its next item, or returns
Advance(cl, x) ==
    IF cl.k = Len(cl.found)
    THEN [cl EXCEPT !.pc = "done"]
    ELSE [cl EXCEPT !.k = @ + 1,
                    !.reqs = @ \o ItemRequests(x, cl.found, cl.k + 1)]

\* the requests of the item k of a class
OfItem(cl, k) == {i \in DOMAIN cl.reqs : cl.reqs[i].item = k}

\* the record getTableSchema builds from the four results of the item k
TableSchemaBuilt(cl, k) ==
    LET f == CHOOSE i \in OfItem(cl, k) : \A j \in OfItem(cl, k) : i <= j
    IN  [tableName |-> cl.reqs[f].name, schema |-> cl.reqs[f].schema,
         columns |-> cl.reqs[f].rows, primaryKeys |-> cl.reqs[f + 1].rows,
         foreignKeys |-> cl.reqs[f + 2].rows, indexes |-> cl.reqs[f + 3].rows]

\* getAllTableSchemas with a getTableSchema that lets a failure through
AfterTableSettlesThrows(cl, r) ==
    IF cl.reqs[r].st = "err"
    THEN [cl EXCEPT !.pc = "failed"]
    ELSE IF \A i \in OfItem(cl, cl.k) : cl.reqs[i].st = "ok"
    THEN Advance([cl EXCEPT !.out = Append(@, TableSchemaBuilt(cl, cl.k))],
                 "tables")
    ELSE cl

\* getAllTableSchemas after a sub-query of its table in hand has settled:
\* getTableSchema returns null at the first failure and the table is left
\* out, or the record once all four are fulfilled
AfterTableSettles(cl, r) ==
    IF cl.reqs[r].st = "err"
    THEN Advance(cl, "tables")
    ELSE IF \A i \in OfItem(cl, cl.k) : cl.reqs[i].st = "ok"
    THEN Advance([cl EXCEPT !.out = Append(@, TableSchemaBuilt(cl, cl.k))],
                 "tables")
    ELSE cl

\* a loop over views or routines that catches the failure of an item's query
\* and leaves the item out
AfterItemSettlesSkips(cl, x, r) ==
    IF cl.reqs[r].st = "err"
    THEN Advance(cl, x)
    ELSE Advance([cl EXCEPT
                     !.out = Append(@, [name |-> cl.reqs[r].name,
                                        schema |-> cl.reqs[r].schema,
                                        rows |-> cl.reqs[r].rows])], x)

\* getAllViews, getAllProcedures and getAllFunctions after the query of the
\* item in hand has settled; a failure is thrown on
AfterItemSettles(cl, x, r) ==
    IF cl.reqs[r].st = "err"
    THEN [cl EXCEPT !.pc = "failed"]
    ELSE Advance([cl EXCEPT
                     !.out = Append(@, [name |-> cl.reqs[r].name,
                                        schema |-> cl.reqs[r].schema,
                                        rows |-> cl.reqs[r].rows])], x)

\* a loop that starts the queries of all its items at once
AfterListingAllAtOnce(cl, x, r) ==
    IF cl.reqs[r].st = "err"
    THEN [cl EXCEPT !.pc = "failed"]
    ELSE IF cl.reqs[r].rows = <<>>
    THEN [cl EXCEPT !.pc = "done"]
    ELSE [cl EXCEPT !.pc = "items", !.found = cl.reqs[r].rows, !.k = 1,
                    !.reqs = @ \o ItemRequests(x, cl.reqs[r].rows, 1)
                               \o ItemRequests(x, cl.reqs[r].rows,
                                               Len(cl.reqs[r].rows))]

\* a loop after its enumeration has settled
AfterListing(cl, x, r) ==
    IF cl.reqs[r].st = "err"
    THEN [cl EXCEPT !.pc = "failed"]
    ELSE IF cl.reqs[r].rows = <<>>
    THEN [cl EXCEPT !.pc = "done"]
    ELSE [cl EXCEPT !.pc = "items", !.found = cl.reqs[r].rows, !.k = 1,
                    !.reqs = @ \o ItemRequests(x, cl.reqs[r].rows, 1)]

\* the loop awaits its request r; a request of a table whose getTableSchema
\* has returned is awaited by nobody
Awaiting(cl, r) ==
    \/ cl.pc = "listing"
    \/ cl.pc = "items" /\ cl.reqs[r].item = cl.k

\* the loop of the class x goes on after its request r has settled
AfterSettle(cl, x, r) ==
    IF cl.pc = "listing" THEN AfterListing(cl, x, r)
    ELSE IF x = "tables" THEN AfterTableSettles(cl, r)
    ELSE AfterItemSettles(cl, x, r)

\* the Promise.all of getDatabaseMetadata: rejected by the first loop that
\* throws, fulfilled when all four have returned
JoinClasses(pc, cls) ==
    IF pc # "running" THEN pc
    ELSE IF \E x \in Classes : cls[x].pc = "failed" THEN "failed"
    ELSE IF \A x \in Classes : cls[x].pc = "done" THEN "ok"
    ELSE "running"

\* getDatabaseMetadata up to its await: the four loops are started, each
\* issuing its enumeration
GetDatabaseMetadata ==
    /\ sweep.pc = "idle"
    /\ sweep' = [pc |-> "running",
                 cls |-> [x \in Classes |->
                            [NoClass EXCEPT
                               !.pc = "listing",
                               !.reqs = <<Request(0, Listing(x), <<>>, <<>>)>>]]]
    /\ UNCHANGED <<aloneVars, db, vIn, vOut, closers, instance, pools, pool,
                   calls, tasks, sPool>>

\* the request r of the class x settles with what the database holds now,
\* and the code that awaits it goes on; what a sweep that has returned left
\* behind, and a request that nobody awaits, is not followed
SweepSettles(x, r, ok) ==
    /\ sweep.pc = "running"
    /\ r \in DOMAIN sweep.cls[x].reqs
    /\ sweep.cls[x].reqs[r].st = "pending"
    /\ Awaiting(sweep.cls[x], r)
    /\ LET q == sweep.cls[x].reqs[r]
           cl == [sweep.cls[x] EXCEPT
                     !.reqs[r].st = IF ok THEN "ok" ELSE "err",
                     !.reqs[r].rows = IF ok THEN AnswerOf(db, q) ELSE <<>>]
           cls == [sweep.cls EXCEPT ![x] = AfterSettle(cl, x, r)]
       IN  sweep' = [pc |-> JoinClasses(sweep.pc, cls), cls |-> cls]
    /\ UNCHANGED <<aloneVars, db, vIn, vOut, closers, instance, pools, pool,
                   calls, tasks, sPool>>

(***************************************************************************)
(* The SQL Server entry point: getConnection and its tools.  The handle    *)
(* `pool` is sPool and sConn is what has become of that pool's connect().  *)
(***************************************************************************)
\* the statement of list_tables
ListTablesSql ==
    <<"\n", " ", " ", " ", " ", " ", " ", " ", " ", " ", " ", "S", "E", "L",
      "E", "C", "T", " ", "\n", " ", " ", " ", " ", " ", " ", " ", " ", " ",
      " ", " ", " ", "T", "A", "B", "L", "E", "_", "N", "A", "M", "E", ",",
      "\n", " ", " ", " ", " ", " ", " ", " ", " ", " ", " ", " ", " ", "T",
      "A", "B", "L", "E", "_", "S", "C", "H", "E", "M", "A", ",", "\n", " ",
      " ", " ", " ", " ", " ", " ", " ", " ", " ", " ", " ", "T", "A", "B",
      "L", "E", "_", "T", "Y", "P", "E", "\n", " ", " ", " ", " ", " ", " ",
      " ", " ", " ", " ", "F", "R", "O", "M", " ", "I", "N", "F", "O", "R",
      "M", "A", "T", "I", "O", "N", "_", "S", "C", "H", "E", "M", "A", ".",
      "T", "A", "B", "L", "E", "S", "\n", " ", " ", " ", " ", " ", " ", " ",
      " ", " ", " ", "W", "H", "E", "R", "E", " ", "T", "A", "B", "L", "E",
      "_", "T", "Y", "P", "E", " ", "=", " ", "'", "B", "A", "S", "E", " ",
      "T", "A", "B", "L", "E", "'", "\n", " ", " ", " ", " ", " ", " ", " ",
      " ", " ", " ", "O", "R", "D", "E", "R", " ", "B", "Y", " ", "T", "A",
      "B", "L", "E", "_", "S", "C", "H", "E", "M", "A", ",", " ", "T", "A",
      "B", "L", "E", "_", "N", "A", "M", "E", "\n", " ", " ", " ", " ", " ",
      " ", " ", " ">>

\* a request made on a pool that is not open is refused by the driver
\* without a round trip, and the handler's catch answers with the error
QueryOn(c, name, args, statement) ==
    [IdleCall EXCEPT !.pc = IF sConn = "connected" THEN "query" ELSE "done",
                     !.kind = IF sConn = "connected" THEN "" ELSE "isError",
                     !.name = name, !.args = args, !.sql = <<statement>>]

\* `const connection = await getConnection()` and what follows up to the
\* next await: with no pool, one is created and its connect() awaited; else
\* the pool is returned as it is and the tool's request is made on it
getConnection(c, name, args, statement) ==
    IF sPool = 0
    THEN /\ sPool' = 1
         /\ sConn' = "connecting"
         /\ calls' = [calls EXCEPT ![c] =
               [IdleCall EXCEPT !.pc = "connecting", !.name = name,
                                !.args = args]]
    ELSE /\ UNCHANGED <<sPool, sConn>>
         /\ calls' = [calls EXCEPT ![c] = QueryOn(c, name, args, statement)]

\* execute_query up to its first await
IndexExecuteQuery(c, args) ==
    /\ CanCall(c, 0)
    /\ IF IsDestructive(args.str1.s)
       THEN /\ calls' = [calls EXCEPT ![c] =
                  [IdleCall EXCEPT !.pc = "done", !.name = "execute_query",
                                   !.args = args, !.kind = "isError"]]
            /\ UNCHANGED <<sPool, sConn>>
       ELSE getConnection(c, "execute_query", args, args.str1.s)
    /\ UNCHANGED <<proc, sweepVars, vIn, vOut, closers, instance, pools,
                   pool, tasks>>

\* list_tables up to its first await
ListTables(c) ==
    /\ CanCall(c, 0)
    /\ getConnection(c, "list_tables", NoArgs, ListTablesSql)
    /\ UNCHANGED <<proc, sweepVars, vIn, vOut, closers, instance, pools,
                   pool, tasks>>

\* getConnection after `await pool.connect()`: the pool is returned and the
\* tool's request made, or the rejection reaches the handler's catch; the
\* handle keeps the pool either way
ConnectSettles(c, ok) ==
    /\ calls[c].pc = "connecting"
    /\ sConn' = IF ok THEN "connected" ELSE "failed"
    /\ calls' = [calls EXCEPT ![c] =
          IF ok
          THEN [@ EXCEPT !.pc = "query",
                         !.sql = <<IF calls[c].name = "list_tables"
                                   THEN ListTablesSql
                                   ELSE calls[c].args.str1.s>>]
          ELSE [@ EXCEPT !.pc = "done", !.kind = "isError"]]
    /\ UNCHANGED <<proc, sweepVars, vIn, vOut, closers, instance, pools,
                   pool, tasks, sPool>>

\* a tool after `await connection.request().query(...)`
QuerySettles(c, ok, n) ==
    /\ calls[c].pc = "query"
    /\ calls' = [calls EXCEPT ![c] =
          IF ok
          THEN [@ EXCEPT !.pc = "done", !.kind = "ok",
                         !.answer = [NoAnswer EXCEPT
                                        !.recordset = [k \in 1..n |-> k],
                                        !.recordCount = n]]
          ELSE [@ EXCEPT !.pc = "done", !.kind = "isError"]]
    /\ UNCHANGED <<aloneVars, sweepVars, vIn, vOut, closers, instance, pools,
                   pool, tasks, sPool>>

(***************************************************************************)
(* The specifications.                                                     *)
(***************************************************************************)
Init ==
    /\ vIn = [lead |-> <<>>, head |-> <<>>, sep |-> <<>>, body |-> <<>>,
              tail |-> <<>>, fill |-> 0, allow |-> FALSE]
    /\ vOut = NoOut
    /\ pools = <<>>
    /\ pool = 0
    /\ calls = [c \in Calls |-> IdleCall]
    /\ tasks = [c \in Calls |-> <<>>]
    /\ sPool = 0
    /\ closers = <<>>
    /\ instance = NoInstance
    /\ proc = "starting"
    /\ sConn = "none"
    /\ sweep = NoSweep
    /\ db = UsersAndOrders

Next ==
    \/ \E c \in Calls, args \in ExecuteQueryArgs : ExecuteQuery(c, args)
    \/ \E c \in Calls, args \in ExecuteStoredProcedureArgs :
          ExecuteStoredProcedure(c, args)
    \/ \E c \in Calls, args \in GetTableSchemaArgs : GetTableSchema(c, args)
    \/ \E c \in Calls : Connect(c)
    \/ \E p \in DOMAIN pools, ok \in BOOLEAN : PoolHandshake(p, ok)
    \/ \E c \in Calls, i \in 1..4, ok \in BOOLEAN, n \in 0..MaxRows :
          RequestSettles(c, i, ok, n)

Spec == Init /\ [][Next]_vars

\* the standalone server alone
StandaloneNext ==
    \/ \E c \in Calls, args \in GetTableDataArgs : GetTableData(c, args)
    \/ \E c \in Calls, args \in StandaloneQueryArgs :
          StandaloneExecuteQuery(c, args)
    \/ \E c \in Calls, ok \in BOOLEAN : SmokeTestSettles(c, ok)
    \/ \E c \in Calls, ok \in BOOLEAN, n \in 0..MaxRows :
          TableDataSettles(c, ok, n)

SpecStandalone == Init /\ [][StandaloneNext]_vars

ValidatorInit ==
    /\ vIn \in ValidatorInputs
    /\ vOut = NoOut
    /\ pools = <<>>
    /\ pool = 0
    /\ calls = [c \in Calls |-> IdleCall]
    /\ tasks = [c \in Calls |-> <<>>]
    /\ sPool = 0
    /\ closers = <<>>
    /\ instance = NoInstance
    /\ proc = "starting"
    /\ sConn = "none"
    /\ sweep = NoSweep
    /\ db = UsersAndOrders

SpecValidator == ValidatorInit /\ [][ValidatorNext]_vars

IdentifierInit ==
    /\ vIn \in IdentifierInputs
    /\ vOut = NoOut
    /\ pools = <<>>
    /\ pool = 0
    /\ calls = [c \in Calls |-> IdleCall]
    /\ tasks = [c \in Calls |-> <<>>]
    /\ sPool = 0
    /\ closers = <<>>
    /\ instance = NoInstance
    /\ proc = "starting"
    /\ sConn = "none"
    /\ sweep = NoSweep
    /\ db = UsersAndOrders

SpecIdentifier == IdentifierInit /\ [][CallSanitizeIdentifier]_vars

\* the dispatcher with the gateway connected and disconnected any number of
\* times
ServiceNext ==
    \/ \E c \in Calls, args \in ServiceQueryArgs : ExecuteQuery(c, args)
    \/ \E c \in Calls, args \in MalformedProcedureArgs :
          ExecuteStoredProcedure(c, args)
    \/ \E c \in Calls, args \in MalformedTableSchemaArgs :
          GetTableSchema(c, args)
    \/ \E c \in Calls, name \in UnknownNames : UnknownTool(c, name)
    \/ \E c \in Calls : TestConnection(c)
    \/ \E c \in Calls : Connect(c)
    \/ Disconnect
    \/ \E k \in 1..MaxDisconnects, ok \in BOOLEAN : CloseSettles(k, ok)
    \/ \E p \in DOMAIN pools, ok \in BOOLEAN : PoolHandshake(p, ok)
    \/ \E c \in Calls, i \in 1..4, ok \in BOOLEAN, n \in 0..MaxRows :
          RequestSettles(c, i, ok, n)

SpecService == Init /\ [][ServiceNext]_vars

\* MCPServer constructed any number of times with any configuration
InstanceInit ==
    /\ vIn = [lead |-> <<>>, head |-> <<>>, sep |-> <<>>, body |-> <<>>,
              tail |-> <<>>, fill |-> 0, allow |-> FALSE]
    /\ vOut = NoOut
    /\ pools = <<>>
    /\ pool = 0
    /\ calls = [c \in Calls |-> IdleCall]
    /\ tasks = [c \in Calls |-> <<>>]
    /\ sPool = 0
    /\ closers = <<>>
    /\ instance = NoInstance
    /\ proc = "starting"
    /\ sConn = "none"
    /\ sweep = NoSweep
    /\ db = UsersAndOrders

SpecInstance ==
    InstanceInit /\ [][\E config \in Configs : getInstance(config)]_vars

\* the standalone server from its start; what the database answers comes
\* eventually, what a caller does need never come
StartupNext ==
    \/ Startup
    \/ \E ok \in BOOLEAN : StartupSettles(ok)
    \/ \E c \in Calls, args \in GetTableDataArgs :
          Serving /\ GetTableData(c, args)
    \/ \E c \in Calls, args \in StandaloneQueryArgs :
          Serving /\ StandaloneExecuteQuery(c, args)
    \/ \E c \in Calls, ok \in BOOLEAN, n \in 0..MaxRows :
          TableDataSettles(c, ok, n)

StartupEvents ==
    \/ Startup
    \/ \E ok \in BOOLEAN : StartupSettles(ok)
    \/ \E c \in Calls, ok \in BOOLEAN, n \in 0..MaxRows :
          TableDataSettles(c, ok, n)

SpecStartup ==
    /\ vIn = [lead |-> <<>>, head |-> <<>>, sep |-> <<>>, body |-> <<>>,
              tail |-> <<>>, fill |-> 0, allow |-> FALSE]
    /\ vOut = NoOut
    /\ pools = <<>>
    /\ pool = 0
    /\ proc = "starting"
    /\ sConn = "none"
    /\ sweep = NoSweep
    /\ db = UsersAndOrders
    /\ calls = [c \in Calls |-> IdleCall]
    /\ tasks = [c \in Calls |-> <<>>]
    /\ sPool = 0
    /\ closers = <<>>
    /\ instance = NoInstance
    /\ [][StartupNext]_vars
    /\ WF_vars(StartupEvents)

\* a sweep of a database that another client may alter meanwhile
MaxRequests == 9

SweepNext ==
    \/ GetDatabaseMetadata
    \/ \E x \in Classes, r \in 1..MaxRequests, ok \in BOOLEAN :
          SweepSettles(x, r, ok)
    \/ \E i \in 1..2, drop \in BOOLEAN : AlterTable(i, drop)

SpecSweep ==
    /\ vIn = [lead |-> <<>>, head |-> <<>>, sep |-> <<>>, body |-> <<>>,
              tail |-> <<>>, fill |-> 0, allow |-> FALSE]
    /\ vOut = NoOut
    /\ pools = <<>>
    /\ pool = 0
    /\ calls = [c \in Calls |-> IdleCall]
    /\ tasks = [c \in Calls |-> <<>>]
    /\ sPool = 0
    /\ closers = <<>>
    /\ instance = NoInstance
    /\ proc = "starting"
    /\ sConn = "none"
    /\ sweep = NoSweep
    /\ db \in Catalogues
    /\ [][SweepNext]_vars

\* the SQL Server entry point alone
IndexNext ==
    \/ \E c \in Calls, args \in StandaloneQueryArgs :
          IndexExecuteQuery(c, args)
    \/ \E c \in Calls : ListTables(c)
    \/ \E c \in Calls, ok \in BOOLEAN : ConnectSettles(c, ok)
    \/ \E c \in Calls, ok \in BOOLEAN, n \in 0..MaxRows :
          QuerySettles(c, ok, n)

SpecIndex == Init /\ [][IndexNext]_vars

(***************************************************************************)
(* The properties.                                                         *)
(***************************************************************************)
\* a validator rejects the arguments of an execute_query call
QueryRejected(args) ==
    \/ ~validateQuery(args.str1.s, Truthy(args.allow)).isValid
    \/ \E i \in DOMAIN args.parameters :
          ~validateParameter(args.parameters[i].value, "varchar")

\* a validator rejects the arguments of an execute_stored_procedure call
ProcedureRejected(args) ==
    \/ ~isValidProcedureName(args.str1.s)
    \/ \E i \in DOMAIN args.parameters :
          ~validateParameter(args.parameters[i].value, "varchar")

\* C1: an execute_query or execute_stored_procedure call in which a validator
\* fails (validateQuery on the text, isValidProcedureName on the name,
\* validateParameter on a parameter) ends with InvalidParams and makes no
\* gateway invocation: no connect, executeQuery or executeStoredProcedure
C1_FailFast ==
    \A c \in Calls :
        LET call == calls[c]
        IN  /\ call.args.str1.typ = "string"
            /\ \/ call.name = "execute_query" /\ QueryRejected(call.args)
               \/ /\ call.name = "execute_stored_procedure"
                  /\ ProcedureRejected(call.args)
            => /\ call.pc = "done"
               /\ call.kind = "InvalidParams"
               /\ tasks[c] = <<>>

\* C1: "DROP TABLE users" with allowWriteOperations omitted and a procedure of
\* an invalid name have both been refused with InvalidParams, and the gateway
\* has constructed no pool and was never invoked
C1_Witness ==
    /\ calls[1].name = "execute_query"
    /\ calls[1].args = QueryArgs(Str(qDropTable), <<>>, "undefined")
    /\ calls[1].kind = "InvalidParams"
    /\ calls[2].name = "execute_stored_procedure"
    /\ calls[2].args = QueryArgs(Str(pBad), <<>>, "undefined")
    /\ calls[2].kind = "InvalidParams"
    /\ tasks[1] = <<>> /\ tasks[2] = <<>>
    /\ pools = <<>>

\* the pools that are connecting or connected
LivePools == {p \in DOMAIN pools : pools[p].state \in {"connecting", "connected"}}

\* C2: under every interleaving of first-use calls at most one connect is in
\* flight and the gateway never holds more than one live pool
C2_SingleLivePool == Cardinality(LivePools) <= 1

\* C3: whatever an execute_query or execute_stored_procedure call that does
\* not carry allowWriteOperations = true hands to the gateway has passed the
\* read-only check
C3_ReadOnlyByDefault ==
    \A c \in Calls :
        /\ calls[c].name \in {"execute_query", "execute_stored_procedure"}
        /\ calls[c].args.allow # "true"
        => \A i \in DOMAIN tasks[c] : isReadOnlyQuery(tasks[c][i].text)

\* C4: execute_query "SELECT * FROM users WHERE id = @id" with a non-null
\* value bound to id and allowWriteOperations omitted invokes the gateway once
\* with that text and those parameters, and when the gateway answers the call
\* succeeds with recordCount the number of rows of the recordset
C4_BoundParameterSucceeds ==
    \A c \in Calls, v \in {JsOne, JsStrOne} :
        /\ calls[c].name = "execute_query"
        /\ calls[c].args = QueryArgs(Str(qSelectById), Param(v), "undefined")
        /\ calls[c].pc = "done"
        => /\ Len(tasks[c]) = 1
           /\ tasks[c][1].op = "executeQuery"
           /\ tasks[c][1].text = qSelectById
           /\ tasks[c][1].params = Param(v)
           /\ tasks[c][1].pc = "ok"
              => /\ calls[c].kind = "ok"
                 /\ calls[c].answer.recordCount = Len(tasks[c][1].rows)

\* the table and the schema the sub-queries of the call c ask about
AskedTable(c) == tasks[c][1].params[1].value.s

AskedSchema(c) == tasks[c][1].params[2].value.s

\* the four sub-queries of the call c were all answered
AllAnswered(c) == Len(tasks[c]) = 4 /\ \A i \in 1..4 : tasks[c][i].pc = "ok"

\* C5: SchemaAnalyzer.getTableSchema returns absent exactly when the table
\* does not exist (all four sub-queries succeed with no rows), the record when
\* it exists, and throws when a sub-query fails
C5_AbsentIffNoTable ==
    \A c \in Calls :
        calls[c].name = "get_table_schema" /\ calls[c].pc = "done"
        /\ Len(tasks[c]) = 4
        => /\ AllAnswered(c) /\ ~TableExists(AskedTable(c), AskedSchema(c))
              => calls[c].answer.analyzer = "null"
           /\ AllAnswered(c) /\ TableExists(AskedTable(c), AskedSchema(c))
              => calls[c].answer.analyzer = "record"
           /\ Rejected(tasks[c]) => calls[c].answer.analyzer = "threw"

\* C6: a get_table_schema call for a table that does not exist fails with
\* NotFound, and a call for an existing table returns its TableSchema
C6_UnknownTableNotFound ==
    \A c \in Calls :
        calls[c].name = "get_table_schema" /\ calls[c].pc = "done"
        /\ AllAnswered(c)
        => IF TableExists(AskedTable(c), AskedSchema(c))
           THEN /\ calls[c].kind = "ok"
                /\ calls[c].answer.tableName = AskedTable(c)
                /\ calls[c].answer.columns =
                      Catalogue("columns", AskedTable(c), AskedSchema(c))
                /\ calls[c].answer.primaryKeys =
                      Catalogue("primaryKeys", AskedTable(c), AskedSchema(c))
           ELSE calls[c].kind = "NotFound"

\* the text holds a dangerous keyword in some letter case at some position
HoldsDangerousKeyword(text) ==
    \E i \in DOMAIN DANGEROUS_KEYWORDS :
        Includes(ToUpperCase(text), DANGEROUS_KEYWORDS[i])

\* C7: for a text that holds a dangerous keyword, in any letter case and at
\* any position, validateQuery(text, false) returns isValid = false and a
\* non-empty error list
C7_DangerousKeywordRejected ==
    /\ vOut.fn = "validateQuery"
    /\ ~vIn.allow
    /\ HoldsDangerousKeyword(QueryText(vIn))
    => ~vOut.flag /\ vOut.errors # <<>>

\* C7: "select drop" after white space, the keyword in lower case and not at
\* the start, refused by the read-only check alone
C7_Witness ==
    /\ vOut.fn = "validateQuery"
    /\ ~vIn.allow
    /\ vIn.lead # <<>>
    /\ vIn.head = ToLowerCase(kwSELECT)
    /\ vIn.sep = <<" ">>
    /\ vIn.body = <<"d", "r", "o", "p">>
    /\ ~vOut.flag
    /\ vOut.errors = <<ErrReadOnly>>

\* the first token of a text: what stands before the first white space of the
\* trimmed text
FirstToken(text) ==
    LET s == Trim(text)
        white == {i \in 1..Len(s) : s[i] \in WhiteSpace}
    IN  IF white = {} THEN s ELSE SubSeq(s, 1, Least(white) - 1)

\* C8: for a text that, trimmed and upper-cased, does not begin with the
\* characters SELECT or WITH, isReadOnlyQuery returns false; the empty text is
\* among them
C8_LeadingKeywordRequired ==
    /\ vOut.fn = "isReadOnlyQuery"
    /\ ~StartsWith(ToUpperCase(Trim(QueryText(vIn))), kwSELECT)
    /\ ~StartsWith(ToUpperCase(Trim(QueryText(vIn))), kwWITH)
    => ~vOut.flag

\* C8: isReadOnlyQuery has refused a text that holds no dangerous keyword and
\* begins, after white space, with another word
C8_Witness ==
    /\ vOut.fn = "isReadOnlyQuery"
    /\ vIn.lead # <<>>
    /\ vIn.head = <<"x">>
    /\ ~HoldsDangerousKeyword(QueryText(vIn))
    /\ ~vOut.flag

\* C8: for a text whose first token, compared case-insensitively, is not
\* exactly SELECT or WITH, isReadOnlyQuery returns false
C8_FirstTokenExact ==
    /\ vOut.fn = "isReadOnlyQuery"
    /\ ToUpperCase(FirstToken(QueryText(vIn))) \notin {kwSELECT, kwWITH}
    => ~vOut.flag

\* the messages of the checks the text fails, in the order length, injection
\* patterns, read-only
FailedChecks(text, allowWrite) ==
    (IF Len(text) > 10000 THEN <<ErrLength>> ELSE <<>>)
    \o (IF hasSQLInjectionPatterns(text) THEN <<ErrInjection>> ELSE <<>>)
    \o (IF ~allowWrite /\ ~isReadOnlyQuery(text) THEN <<ErrReadOnly>> ELSE <<>>)

\* C9: validateQuery(text, allowWrite) returns one message for each failed
\* check among length, injection patterns and, only when allowWrite is false,
\* read-only, in that order, and isValid is true iff the list is empty
C9_OneErrorPerFailedCheck ==
    vOut.fn = "validateQuery"
    => /\ vOut.errors = FailedChecks(QueryText(vIn), vIn.allow)
       /\ vOut.flag = (vOut.errors = <<>>)
       /\ vIn.allow => ErrReadOnly \notin Range(vOut.errors)

\* C9: a text of 10001 characters with a comment marker that does not begin
\* with SELECT has got all three messages
C9_Witness ==
    /\ vOut.fn = "validateQuery"
    /\ ~vIn.allow
    /\ Len(QueryText(vIn)) = MaxQueryLength + 1
    /\ ~vOut.flag
    /\ vOut.errors = <<ErrLength, ErrInjection, ErrReadOnly>>

\* the identifier has only characters of [A-Za-z0-9_.] and at most 128
IsSanitized(s) ==
    Len(s) <= 128 /\ \A i \in DOMAIN s : IsIdentifierChar(s[i])

\* the identifier between the quotes of a get_table_data statement
QuotedIdentifier(sql) ==
    SubSeq(sql, Len(SelectFrom) + 2, Len(sql) - Len(LimitTail) - 1)

\* C10: the table and schema identifiers of a tool call that reach the
\* database, as the parameters of a metadata sub-query of get_table_schema or
\* as the quoted table name of the get_table_data statement, have only
\* characters of [A-Za-z0-9_.] and at most 128 of them
C10_IdentifiersSanitized ==
    \A c \in Calls :
        /\ \A i \in DOMAIN tasks[c] :
              tasks[c][i].sub # ""
              => /\ IsSanitized(tasks[c][i].params[1].value.s)
                 /\ IsSanitized(tasks[c][i].params[2].value.s)
        /\ \A k \in DOMAIN calls[c].sql :
              calls[c].name = "get_table_data" /\ calls[c].sql[k] # SmokeSql
              => IsSanitized(QuotedIdentifier(calls[c].sql[k]))

\* the positions of s that hold a character of [A-Za-z0-9_.]
KeptPositions(s) ==
    {i \in 1..Len(s) :
        IsLetter(s[i]) \/ s[i] \in DigitSet \/ s[i] \in {"_", "."}}

\* out holds, in their order, the first 128 of the characters of s that belong
\* to [A-Za-z0-9_.], and nothing else
IsKeptPrefix(out, s) ==
    LET kept == KeptPositions(s)
    IN  /\ Len(out) = Min(128, Cardinality(kept))
        /\ \A i \in kept :
              LET rank == Cardinality({j \in kept : j <= i})
              IN  rank <= 128 => out[rank] = s[i]

\* C11: sanitizeIdentifier returns the characters of its input that belong to
\* [A-Za-z0-9_.], in their order, cut to the first 128 of them; the empty
\* input gives the empty output and "a'b; DROP--" gives "abDROP"
C11_KeepsIdentifierCharacters ==
    vOut.fn = "sanitizeIdentifier"
    => /\ IsKeptPrefix(vOut.text, IdentifierText(vIn))
       /\ IdentifierText(vIn) = <<>> => vOut.text = <<>>
       /\ IdentifierText(vIn) = idExample
          => vOut.text = <<"a", "b", "D", "R", "O", "P">>

\* C11: an input of more than 128 allowed characters with others among them
\* has been cut to 128 characters
C11_Witness ==
    /\ vOut.fn = "sanitizeIdentifier"
    /\ vIn.head = idExample
    /\ vIn.fill = MaxIdentifierLength
    /\ vIn.fillChar = "x"
    /\ Len(vOut.text) = 128
    /\ vOut.text[1] = "a" /\ vOut.text[2] = "b" /\ vOut.text[128] = "x"

\* C11: sanitizeIdentifier("a'b; DROP--") yields "ab.DROP"
C11_ExampleKeepsDot ==
    vOut.fn = "sanitizeIdentifier" /\ IdentifierText(vIn) = idExample
    => vOut.text = <<"a", "b", ".", "D", "R", "O", "P">>

\* the position i of s is where a statement begins: only white space stands
\* between it and the start of the text, a semicolon or the end of a comment
BeginsStatement(s, i) ==
    LET black == {j \in 1..(i - 1) : s[j] \notin WhiteSpace}
    IN  \/ black = {}
        \/ LET last == i - Least({i - j : j \in black})
           IN  \/ s[last] = ";"
               \/ last > 1 /\ s[last] = "/" /\ s[last - 1] = "*"

\* the text performs a DROP, DELETE or TRUNCATE: one of its statements begins
\* with the keyword, in any letter case
PerformsDestructive(text) ==
    \E i \in 1..Len(text), kw \in {kwDROP, kwDELETE, kwTRUNCATE} :
        /\ StartsAt(ToUpperCase(text), kw, i)
        /\ BeginsStatement(text, i)
        /\ i + Len(kw) > Len(text) \/ ~IsWordChar(text[i + Len(kw)])

\* C12: the standalone execute_query passes no text that performs a DROP,
\* DELETE or TRUNCATE to the pool, wherever the statement stands in the text,
\* and answers such a call with an error result
C12_DestructiveNeverQueried ==
    \A c \in Calls :
        calls[c].name = "execute_query"
        => /\ \A k \in DOMAIN calls[c].sql :
                 calls[c].sql[k] # SmokeSql
                 => ~PerformsDestructive(calls[c].sql[k])
           /\ PerformsDestructive(calls[c].args.str1.s)
              => calls[c].pc = "done" /\ calls[c].kind = "isError"

\* the tools of the dispatcher that do not turn failures into a normal result
ThrowingTools ==
    {"execute_query", "get_table_schema", "execute_stored_procedure"}

\* the message of the gateway invocation of ts that failed first
UnderlyingMessage(ts) ==
    ts[Least({i \in DOMAIN ts : ts[i].pc = "err"})].err

\* C13: every tool call ends in a normal result or a structured error; a
\* failure of the gateway below the dispatcher comes back as InternalError
\* with the operation and the underlying message, and a structured error
\* raised by the handler keeps its kind
C13_FailuresResurfaceAsInternalError ==
    \A c \in Calls :
        calls[c].pc = "done" /\ calls[c].name \in ThrowingTools
        => /\ calls[c].kind \in McpErrorKinds \cup {"ok"}
           /\ tasks[c] = <<>> /\ calls[c].args.shape = "record"
              => calls[c].kind = "InvalidParams"
           /\ tasks[c] # <<>> /\ Rejected(tasks[c])
              => /\ calls[c].kind = "InternalError"
                 /\ Len(calls[c].message) = 2
                 /\ calls[c].message[2] = UnderlyingMessage(tasks[c])

\* the arguments are missing or malformed: no record, `parameters` not a map,
\* or the required text absent, empty or not a string
Malformed(args) == args.shape # "record" \/ MissingString(args.str1)

\* C14: an execute_query, get_table_schema or execute_stored_procedure call
\* with a missing or malformed argument fails with InvalidParams and makes no
\* gateway invocation
C14_MalformedIsInvalidParams ==
    \A c \in Calls :
        calls[c].name \in ThrowingTools /\ Malformed(calls[c].args)
        => /\ calls[c].pc = "done"
           /\ calls[c].kind = "InvalidParams"
           /\ tasks[c] = <<>>

\* the six tools callTool knows
RegisteredTools ==
    {"execute_query", "get_table_schema", "list_tables",
     "get_database_metadata", "execute_stored_procedure", "test_connection"}

\* C15: a tool call whose name is none of the six registered tools ends at
\* once with the structured error MethodNotFound ("not found"), never with
\* InternalError or a normal result, and leaves the gateway as it is
C15_UnknownToolNotFound ==
    [][\A c \in Calls :
          /\ calls[c].pc = "idle"
          /\ calls'[c].pc # "idle"
          /\ calls'[c].name \notin RegisteredTools \cup {"connect"}
          => /\ calls'[c].pc = "done"
             /\ calls'[c].kind = "MethodNotFound"
             /\ tasks' = tasks
             /\ pools' = pools
             /\ pool' = pool]_vars

\* C15: an unknown tool was refused with MethodNotFound while the gateway was
\* connected, after a call that used it
C15_Witness ==
    /\ calls[1].name = "test_connection"
    /\ calls[1].answer.connected = "true"
    /\ calls[2].name = "drop_table"
    /\ calls[2].kind = "MethodNotFound"
    /\ tasks[2] = <<>>
    /\ PoolConnected(pools, pool)

\* the last gateway invocation of the call c is the probe query, answered
ProbeSucceeded(c) ==
    /\ tasks[c] # <<>>
    /\ tasks[c][Len(tasks[c])].op = "executeQuery"
    /\ tasks[c][Len(tasks[c])].text = ProbeSql
    /\ tasks[c][Len(tasks[c])].pc = "ok"

\* C16: test_connection never throws: whatever the gateway's state and
\* whatever fails, connect or the probe query, it returns a normal result
\* with connected = false and the failure's message, and it reports
\* connected = true only when the probe query succeeded
C16_TestConnectionNeverThrows ==
    \A c \in Calls :
        calls[c].name = "test_connection" /\ calls[c].pc = "done"
        => /\ calls[c].kind = "ok"
           /\ calls[c].answer.connected \in {"true", "false"}
           /\ calls[c].answer.connected = "true" => ProbeSucceeded(c)
           /\ Rejected(tasks[c])
              => /\ calls[c].answer.connected = "false"
                 /\ calls[c].message[2] = UnderlyingMessage(tasks[c])

\* C16: after a healthy test_connection and a disconnect, a second
\* test_connection has reported a failure in-band
C16_Witness ==
    /\ calls[1].name = "test_connection"
    /\ calls[1].answer.connected = "true"
    /\ closers # <<>>
    /\ closers[1].pl # 0 /\ closers[1].pc = "ok"
    /\ pool = 0
    /\ calls[2].name = "test_connection"
    /\ calls[2].pc = "done"
    /\ calls[2].kind = "ok"
    /\ calls[2].answer.connected = "false"
    /\ Rejected(tasks[2])

\* C17: connect() on a connected gateway creates no pool, performs no
\* handshake and leaves the handle as it is, and returns normally
C17_ConnectIdempotent ==
    [][\A c \in Calls :
          /\ calls[c].pc = "idle"
          /\ calls'[c].name = "connect"
          /\ PoolConnected(pools, pool)
          => /\ pools' = pools
             /\ pool' = pool
             /\ calls'[c].pc = "done"
             /\ calls'[c].kind = "ok"
             /\ tasks'[c][1].pc = "ok"]_vars

\* C17: two connect() calls in a row have both returned, and the handle is
\* the one pool the first has created
C17_Witness ==
    /\ calls[1].name = "connect" /\ calls[1].kind = "ok"
    /\ calls[2].name = "connect" /\ calls[2].kind = "ok"
    /\ tasks[1][1].pl = 1
    /\ Len(pools) = 1
    /\ pool = 1
    /\ PoolConnected(pools, pool)

\* C18: disconnect() closes the pool and clears the handle, and isConnected()
\* is false afterwards; on a gateway without a handle it closes nothing,
\* changes nothing and returns without an error, so a second disconnect()
\* after the first leaves the state of the first
C18_DisconnectClears ==
    [][/\ Len(closers') > Len(closers) /\ pool = 0
          => /\ closers'[Len(closers')] = [pl |-> 0, pc |-> "ok"]
             /\ pools' = pools
             /\ pool' = 0
             /\ ~isConnected'
       /\ \A k \in DOMAIN closers :
             closers[k].pc = "closing" /\ closers'[k].pc = "ok"
             => /\ pools'[closers[k].pl].state = "closed"
                /\ pool' = 0
                /\ ~isConnected']_vars

\* C18: a connected pool was closed by a first disconnect(), and a second
\* disconnect() has returned at once
C18_Witness ==
    /\ Len(pools) = 1
    /\ pools[1].state = "closed"
    /\ closers = << [pl |-> 1, pc |-> "ok"], [pl |-> 0, pc |-> "ok"] >>
    /\ pool = 0
    /\ calls[1].name = "connect" /\ calls[1].kind = "ok"

\* the gateway operations that issue a request
RequestOps == {"executeQuery", "executeStoredProcedure"}

\* C19: executeQuery and executeStoredProcedure connect first when the gateway
\* is not connected and issue their request only on a connected pool after
\* their connect has succeeded; a failed connect or a failed request makes the
\* invocation fail with that error and without a result, for good, and the
\* execute tools then return no result set
C19_AutoConnectNeverSwallows ==
    [][\A c \in Calls :
          /\ \A i \in DOMAIN tasks'[c] :
                LET new == tasks'[c][i]
                IN  new.op \in RequestOps =>
                    /\ new.pc = "requesting"
                          => pools'[new.pl].state = "connected"
                    /\ new.pc = "err"
                          => new.err # "" /\ ~new.recordset /\ new.rows = <<>>
                    /\ i = 1 /\ tasks[c] = <<>> /\ ~isConnected
                          => /\ new.pc = "connecting"
                             /\ new.pl \notin DOMAIN pools
                             /\ pools'[new.pl].state = "connecting"
                    /\ i \in DOMAIN tasks[c] =>
                         LET old == tasks[c][i]
                         IN  /\ old.pc = "connecting" /\ new.pc # "connecting"
                                => /\ new.pc \in {"requesting", "err"}
                                   /\ new.pc = "requesting"
                                         => pools'[old.pl].state = "connected"
                                   /\ pools'[old.pl].state = "failed"
                                         => new.err = "connect failed"
                             /\ old.pc = "requesting" /\ new.pc = "err"
                                => new.err = "driver error"
                             /\ old.pc \in {"ok", "err"} => new = old
          /\ /\ calls'[c].name \in {"execute_query", "execute_stored_procedure"}
             /\ calls[c].pc = "running"
             /\ Rejected(tasks'[c])
             => /\ calls'[c].kind = "InternalError"
                /\ calls'[c].message[2] = tasks'[c][1].err
                /\ calls'[c].answer = NoAnswer]_vars

\* C19: an execute_query call that found the gateway not connected has
\* failed with the error of its connect, and an execute_stored_procedure call
\* that connected first has failed with the error of its request
C19_Witness ==
    /\ calls[1].name = "execute_query"
    /\ calls[1].kind = "InternalError"
    /\ tasks[1][1].pl = 1
    /\ tasks[1][1].err = "connect failed"
    /\ calls[2].name = "execute_stored_procedure"
    /\ calls[2].kind = "InternalError"
    /\ tasks[2][1].pl = 2
    /\ pools[2].state = "connected"
    /\ tasks[2][1].err = "driver error"

\* C20: the gateway is constructed at most once, and every getInstance call,
\* whatever configuration it is passed, returns that one instance, whose
\* configuration is the one passed to the first call
C20_OneInstance ==
    /\ instance.made <= 1
    /\ \A k \in DOMAIN instance.got :
          /\ instance.got[k].id = 1
          /\ instance.got[k].id = instance.got[1].id
          /\ instance.got[k].config = instance.got[1].passed

\* C20: getInstance was called with three different configurations in turn
C20_Witness ==
    /\ Len(instance.got) = 3
    /\ instance.got[1].passed = "replica"
    /\ instance.got[2].passed = "localhost"
    /\ instance.got[3].passed = "staging"
    /\ instance.got[3].config = "replica"

RECURSIVE SentBy(_)

\* the number of statements that the tool calls up to c have sent
SentBy(c) == IF c = 0 THEN 0 ELSE Len(calls[c].sql) + SentBy(c - 1)

\* the statements the standalone server has sent to its pool, each of them an
\* attempt to reach the database: the smoke test of the start and what the
\* tools sent
Attempts == (IF proc = "starting" THEN 0 ELSE 1) + SentBy(MaxCalls)

\* a statement sent to the pool has failed
AttemptFailed ==
    \/ proc = "exited"
    \/ \E c \in Calls :
          /\ calls[c].pc = "done"
          /\ calls[c].kind = "isError"
          /\ calls[c].sql # <<>>

\* C21: after a failed attempt to reach the database the standalone server
\* eventually makes a further attempt, whether or not a tool is called
C21_RetriesAfterFailure ==
    \A n \in 0..(MaxCalls + 1) :
        (AttemptFailed /\ Attempts = n) ~> (Attempts > n)

\* the get_table_schema calls that got as far as the analyzer
AnalyzerCalls ==
    {c \in Calls : calls[c].name = "get_table_schema" /\ tasks[c] # <<>>}

\* C22: getTableSchema starts its four sub-queries, in the order columns,
\* primary keys, foreign keys, indexes, before it awaits any of them; it
\* builds the record only when all four are fulfilled and none when one of
\* them failed; and the record is what the catalogue holds for the asked
\* table, whatever the order in which the four completed
C22_FourSubQueriesJoined ==
    \A c \in AnalyzerCalls :
        /\ Len(tasks[c]) = 4
        /\ \A i \in 1..4 :
              /\ tasks[c][i].sub = SubQueries[i]
              /\ tasks[c][i].params = tasks[c][1].params
        /\ calls[c].answer.analyzer = "record"
              => /\ \A i \in 1..4 : tasks[c][i].pc = "ok"
                 /\ calls[c].answer.columns =
                       Catalogue("columns", tasks[c][1].params[1].value.s,
                                 tasks[c][1].params[2].value.s)
                 /\ calls[c].answer.primaryKeys =
                       Catalogue("primaryKeys", tasks[c][1].params[1].value.s,
                                 tasks[c][1].params[2].value.s)
                 /\ calls[c].answer.foreignKeys =
                       Catalogue("foreignKeys", tasks[c][1].params[1].value.s,
                                 tasks[c][1].params[2].value.s)
                 /\ calls[c].answer.indexes =
                       Catalogue("indexes", tasks[c][1].params[1].value.s,
                                 tasks[c][1].params[2].value.s)
        /\ (\E i \in 1..4 : tasks[c][i].pc = "err")
              => calls[c].pc = "done" /\ calls[c].answer.analyzer = "null"
        /\ calls[c].pc = "running"
              => /\ calls[c].answer = NoAnswer
                 /\ \E i \in 1..4 : tasks[c][i].pc \notin {"ok", "err"}

\* C22: the four sub-queries of a call were in flight together on the
\* connected pool and the record of the table users has been built
C22_Witness ==
    /\ calls[2].name = "get_table_schema"
    /\ calls[2].kind = "ok"
    /\ \A i \in 1..4 : tasks[2][i].pl = 1 /\ tasks[2][i].pc = "ok"
    /\ calls[2].answer.columns = <<"id", "name">>
    /\ calls[2].answer.primaryKeys = <<"id">>
    /\ calls[2].answer.indexes = <<"PK_users">>

\* the requests of a loop that are in flight, and those made for an item
InFlight(x) ==
    {r \in DOMAIN sweep.cls[x].reqs : sweep.cls[x].reqs[r].st = "pending"}

ItemsInFlight(x) == {r \in InFlight(x) : sweep.cls[x].reqs[r].item > 0}

\* getTableSchema has returned for the table k: with null at a failure, or
\* with the record
Fetched(k) ==
    LET cl == sweep.cls["tables"]
    IN  \/ \E r \in OfItem(cl, k) : cl.reqs[r].st = "err"
        \/ \A r \in OfItem(cl, k) : cl.reqs[r].st = "ok"

\* the tables whose record getTableSchema has built
Built ==
    {k \in 1..Len(sweep.cls["tables"].found) :
        /\ OfItem(sweep.cls["tables"], k) # {}
        /\ \A r \in OfItem(sweep.cls["tables"], k) :
              sweep.cls["tables"].reqs[r].st = "ok"}

\* the tables sequence holds the built records in the order of the
\* enumeration
TablesInOrder ==
    LET cl == sweep.cls["tables"]
    IN  /\ Len(cl.out) = Cardinality(Built)
        /\ \A k \in Built :
              cl.out[Cardinality({j \in Built : j <= k})] =
                 TableSchemaBuilt(cl, k)

\* the sub-queries of a table are issued only when getTableSchema has
\* returned for the table before it, four at a time and in the order of the
\* enumeration
TablesOneByOne ==
    LET cl == sweep.cls["tables"]
    IN  /\ \A r \in DOMAIN cl.reqs :
              cl.reqs[r].item > 1 => Fetched(cl.reqs[r].item - 1)
        /\ \A r, s \in DOMAIN cl.reqs :
              r <= s => cl.reqs[r].item <= cl.reqs[s].item
        /\ \A k \in 1..Len(cl.found) :
              Cardinality(OfItem(cl, k)) \in {0, 4}

\* a loop over views or routines has the query of one item in flight at
\* most, asks item after item as enumerated and returns them in that order
ItemsOneByOne(x) ==
    LET cl == sweep.cls[x]
    IN  /\ Cardinality(ItemsInFlight(x)) <= 1
        /\ \A r \in DOMAIN cl.reqs :
              /\ r > 1 => /\ cl.reqs[r].item = r - 1
                          /\ cl.reqs[r].name = cl.found[r - 1].name
                          /\ cl.reqs[r].schema = cl.found[r - 1].schema
              /\ r > 2 => cl.reqs[r - 1].st = "ok"
        /\ \A i \in DOMAIN cl.out :
              /\ cl.out[i].name = cl.found[i].name
              /\ cl.out[i].schema = cl.found[i].schema
              /\ cl.reqs[i + 1].st = "ok"

\* C23: getDatabaseMetadata runs four loops side by side, over tables,
\* views, procedures and functions, and each loop is serial: a table's
\* sub-queries are issued only after the table before it has been fetched,
\* each of the other loops has at most one per-item query in flight, and
\* every loop asks and returns its items in the order of its enumeration
C23_SerialWithinEachLoop ==
    /\ sweep.pc # "idle"
          => \A x \in Classes : sweep.cls[x].reqs[1].sub = Listing(x)
    /\ TablesOneByOne
    /\ TablesInOrder
    /\ \A x \in Classes \ {"tables"} : ItemsOneByOne(x)

\* C23: the loops run side by side, the query of a view in flight beside
\* the sub-queries of a table, after a first view has been returned
C23_Witness ==
    /\ Cardinality(InFlight("tables")) = 4
    /\ Len(sweep.cls["views"].out) = 1
    /\ Cardinality(ItemsInFlight("views")) = 1
    /\ sweep.cls["procedures"].pc = "done"

\* C23 as stated: tables, views and routines are the three classes, and
\* within routines, procedures and functions taken together, at most one
\* per-item query is in flight
C23_RoutinesOneAtATime ==
    /\ TablesOneByOne
    /\ Cardinality(ItemsInFlight("views")) <= 1
    /\ Cardinality(ItemsInFlight("procedures"))
          + Cardinality(ItemsInFlight("functions")) <= 1

\* the requests of the loop x that have failed
Failures(x) ==
    {r \in DOMAIN sweep.cls[x].reqs : sweep.cls[x].reqs[r].st = "err"}

\* a failure that no catch block stands in the way of: of an enumeration, or
\* of the query made for a view or a routine
Thrown ==
    \E x \in Classes :
        \E r \in Failures(x) : x # "tables" \/ sweep.cls[x].reqs[r].item = 0

C25_FailedTableLeftOut ==
    LET cl == sweep.cls["tables"]
    IN  /\ cl.pc = "failed" => cl.reqs[1].st = "err"
        /\ \A r \in Failures("tables") :
              cl.reqs[r].item > 0
              => /\ cl.reqs[r].item \notin Built
                 /\ cl.pc = "done" \/ cl.k > cl.reqs[r].item
        /\ Len(cl.out) = Cardinality(Built)
        /\ \A k \in Built :
              \E i \in DOMAIN cl.out : cl.out[i] = TableSchemaBuilt(cl, k)
        /\ \A i, j \in DOMAIN cl.out :
              i < j => \E k, l \in Built :
                          /\ k < l
                          /\ cl.out[i] = TableSchemaBuilt(cl, k)
                          /\ cl.out[j] = TableSchemaBuilt(cl, l)

\* C25: a sub-query of the table orders has failed, and the sweep has
\* returned the table users alone
C25_Witness ==
    /\ sweep.pc = "ok"
    /\ db = UsersAndOrders
    /\ \E r \in Failures("tables") : sweep.cls["tables"].reqs[r].item = 1
    /\ Len(sweep.cls["tables"].out) = 1
    /\ sweep.cls["tables"].out[1].tableName = tUsers
    /\ sweep.cls["tables"].out[1].columns = <<"id", "name">>

\* the values of a sequence
Names(s) == {s[i] : i \in DOMAIN s}

\* C26: every TableSchema of a returned DatabaseMetadata names, as its
\* primary key, columns that are among its columns
C26_PrimaryKeysAmongColumns ==
    sweep.pc = "ok"
    => \A i \in DOMAIN sweep.cls["tables"].out :
          Names(sweep.cls["tables"].out[i].primaryKeys)
             \subseteq Names(sweep.cls["tables"].out[i].columns)

\* C29: for every full name of the enumeration the sub-queries made for it
\* ask for the schema and the table that make up that full name
C29_FetchesEnumeratedPair ==
    LET cl == sweep.cls["tables"]
    IN  \A r \in DOMAIN cl.reqs :
           cl.reqs[r].item > 0
           => cl.reqs[r].schema \o <<Dot>> \o cl.reqs[r].name
                 = cl.found[cl.reqs[r].item]

\* the handle is a pool whose handshake has failed
ConnectFailed == pool # 0 /\ pools[pool].state = "failed"

\* C27: after a failed connect() the gateway is not connected, and the next
\* executeQuery, executeStoredProcedure or connect constructs a new pool and
\* awaits its handshake; when that handshake succeeds while the pool is
\* still the handle, connect returns and the request is issued on it
C27_FailedConnectIsRetried ==
    [][\A c \in Calls :
          /\ ConnectFailed => ~isConnected
          /\ /\ ConnectFailed
             /\ calls[c].pc = "idle"
             /\ tasks'[c] # <<>>
             => /\ Len(pools') > Len(pools)
                /\ tasks'[c][1].pc = "connecting"
                /\ tasks'[c][1].pl = Len(pools) + 1
                /\ pools'[Len(pools) + 1].state = "connecting"
                /\ pools'[pool'].state = "connecting"
          /\ \A i \in DOMAIN tasks[c] :
                /\ calls[c].pc = "running"
                /\ tasks[c][i].pc = "connecting"
                /\ pool' = tasks[c][i].pl
                /\ pools'[tasks[c][i].pl].state = "connected"
                => tasks'[c][i].pc = IF tasks[c][i].op = "connect"
                                     THEN "ok" ELSE "requesting"]_vars

\* C27: a first execute_query failed with its connect, and a second one was
\* served on a pool of its own
C27_Witness ==
    /\ calls[1].name = "execute_query"
    /\ calls[1].kind = "InternalError"
    /\ tasks[1][1].err = "connect failed"
    /\ pools[1].state = "failed"
    /\ calls[2].name = "execute_query"
    /\ calls[2].kind = "ok"
    /\ tasks[2][1].pl = 2
    /\ calls[2].answer.recordCount = MaxRows

\* pool.close() has been called on the pool p
CloseStarted(p) == \E k \in DOMAIN closers : closers[k].pl = p

\* C28: whenever executeQuery or executeStoredProcedure issues its request,
\* it is on a pool on which close() has not been called; and an invocation
\* that finds the handle cleared after its connect fails with "Database
\* connection not established"
C28_NoRequestOnClosingPool ==
    [][\A c \in Calls : \A i \in DOMAIN tasks'[c] :
          /\ /\ tasks'[c][i].pc = "requesting"
             /\ i \in DOMAIN tasks[c] => tasks[c][i].pc # "requesting"
             => ~CloseStarted(tasks'[c][i].pl)
          /\ /\ i \in DOMAIN tasks[c]
             /\ tasks[c][i].pc = "connecting"
             /\ tasks'[c][i].pc = "err"
             /\ pool = 0
             /\ pools'[tasks[c][i].pl].state = "connected"
             => tasks'[c][i].err = "Database connection not established"]_vars

(***************************************************************************)
(* C30: getConnection creates at most one pool, and a tool call makes its  *)
(* request only on a pool whose connect() has completed successfully,      *)
(* also when calls overlap and after a first connect() that failed.        *)
(***************************************************************************)
C30_QueriesOnlyOnConnectedPool ==
    [][/\ sPool # 0 => sPool' = sPool
       /\ \A c \in Calls :
             Len(calls'[c].sql) > Len(calls[c].sql) => sConn' = "connected"]_vars

====
